---- MODULE Spec2Model ----
(***************************************************************************)
(* The plan-generation pipeline of the chaos-engineering API:               *)
(* the /api/chaos/generate handler (backend/main.py), the index reader     *)
(* OpenSearchClient.get_index_data (backend/clients/opensearch_client.py), *)
(* and LLMClient.analyze_with_bedrock / ChaosPlanGenerator.generate_plan   *)
(* (chaos_code.py): specification Spec.  The streaming handler             *)
(* /api/chaos/generate/stream with analyze_with_bedrock_streaming:         *)
(* SpecStream, SpecStreamFair.  The sample loop of _create_prompt:         *)
(* SpecPrompt.  Several requests in the API server: SpecServer.  The      *)
(* connectivity probe: SpecProbe.  The dashboard session: SpecDash.        *)
(*                                                                         *)
(* Python values are encoded as follows.  A JSON value is a tagged record: *)
(* [t |-> "obj", f |-> <function from keys to JSON values>],               *)
(* [t |-> "arr", s |-> <sequence>], [t |-> "num", n |-> <integer>],        *)
(* [t |-> "str", s |-> <string>]; RAISED is the result of an expression    *)
(* that raised.  A Python dict built by the code itself (the fetch         *)
(* envelope, metrics) is a record whose DOMAIN is the dict's key set.      *)
(* None is the string NoneValue, which is no message and no plan text.     *)
(***************************************************************************)
EXTENDS Integers, Sequences, FiniteSets, TLC

VARIABLES
    pc,               \* position of the request handler generate_chaos_plan
    request,          \* the GeneratePlanRequest being served
    calls,            \* outbound operations performed so far, in order
    mapping_response, \* get_index_data: the reply to the _mapping GET
    search_response,  \* get_index_data: the reply to the _search POST
    index_data,       \* the envelope returned by get_index_data
    now,              \* the clock read by time.time(), in seconds
    client,           \* LLMClient.client: TRUE once the Bedrock client exists
    attempt,          \* loop variable of analyze_with_bedrock
    sleeps,           \* durations passed to time.sleep, in order
    outcomes,         \* what the model backend did on each attempt, in order
    invoked,          \* outcome of analyze_with_bedrock (a return or a raise)
    plan,             \* first component of generate_plan's result
    metrics,          \* second component of generate_plan's result
    response,         \* the GeneratePlanResponse sent to the caller
    handle,           \* the network handle of the model's response stream
    consumed,         \* provider events the streaming invoke has read, in order
    yielded,          \* fragments the streaming invoke has yielded, in order
    sent,             \* events plan_generator_stream has emitted, in order
    consumer,         \* whether the receiver of the event stream still pulls
    sample_docs,      \* _create_prompt: the normalized sample built so far
    inflight,         \* the API server: the locals of each request in progress
    handles,          \* the API server: number of client objects created so far
    served,           \* the backends: the operations they were asked for, in order
    session,          \* the dashboard: st.session_state
    history           \* the dashboard: where its index_data and plan came from

\* the state the streaming path and the prompt loop add to the blocking path
streamVars == <<handle, consumed, yielded, sent, consumer>>
promptVars == <<sample_docs>>
\* the state of the API server with several requests, and of the dashboard
serverVars == <<inflight, handles, served>>
dashVars == <<session, history>>

vars == <<pc, request, calls, mapping_response, search_response, index_data, now, client,
          attempt, sleeps, outcomes, invoked, plan, metrics, response,
          streamVars, promptVars, serverVars, dashVars>>

-----------------------------------------------------------------------------
(* Bounds of the model *)

\* the clock may advance on its own up to this value (sleeps add to it)
MaxClock == 2
\* largest number of hits a search reply carries
MaxHits == 2

-----------------------------------------------------------------------------
(* Python values *)

NoneValue == "<None>"
\* a local or a result that has not been assigned yet
Unset == [t |-> "unset"]
RAISED == [t |-> "raised"]
Obj(f) == [t |-> "obj", f |-> f]
Arr(s) == [t |-> "arr", s |-> s]
Num(n) == [t |-> "num", n |-> n]
Str(s) == [t |-> "str", s |-> s]
EmptyDict == Obj(<<>>)
\* JSON null, Python None where the other values are records
Null == [t |-> "null"]
\* a body that is not JSON: response.json() / json.loads raise on it
Garbage == [t |-> "garbage"]

\* d.get(k, default): raises (AttributeError) unless d is a dict
Get(d, k, default) ==
    IF d.t # "obj" THEN RAISED
    ELSE IF k \in DOMAIN d.f THEN d.f[k] ELSE default

\* d[k] on a dict (KeyError when absent, TypeError on a non-container)
Item(d, k) ==
    IF d.t # "obj" THEN RAISED
    ELSE IF k \in DOMAIN d.f THEN d.f[k] ELSE RAISED

\* a[i] on a list, 0-based (IndexError when out of range)
Index(a, i) ==
    IF a.t # "arr" THEN RAISED
    ELSE IF i + 1 \in DOMAIN a.s THEN a.s[i + 1] ELSE RAISED

\* len(x): defined on lists, dicts and strings, raises on numbers
PyLen(x) ==
    IF x.t = "arr" THEN Num(Len(x.s))
    ELSE IF x.t = "obj" THEN Num(Cardinality(DOMAIN x.f))
    ELSE IF x.t = "str" THEN Num(Len(x.s))
    ELSE RAISED

\* json.loads(body) / response.json()
Json(body) == IF body.t = "garbage" THEN RAISED ELSE body

-----------------------------------------------------------------------------
(* Start values of the API server and of the dashboard *)

\* number of requests the API server handles side by side
MaxRequests == 2

RequestIds == 1..MaxRequests

\* a request that has not arrived yet
NotStarted == [pc |-> "idle"]

\* chaos_code.py lines 33-46: the session state of a new dashboard session
SessionStart ==
    [os_client         |-> Null,
     llm_client        |-> Null,
     indices           |-> <<>>,
     selected_index    |-> NoneValue,
     index_data        |-> Null,
     chaos_plan        |-> NoneValue,
     connection_tested |-> FALSE]

\* nothing was tested, fetched or generated yet
HistoryStart ==
    [llm_test_passed |-> FALSE,
     fetched_index   |-> NoneValue,
     generation      |-> Null,
     plan_source     |-> Null]

-----------------------------------------------------------------------------
(* HTTP replies of the search backend, as the requests library reports them *)

\* representative status codes: success, a redirection that requests hands
\* back to the caller, an error
StatusCodes == {200, 304, 404}

\* requests.Response.ok: no HTTPError would be raised
Ok(status) == ~(400 <= status /\ status < 600)

\* requests.Response.raise_for_status(): raises for 4xx and 5xx only
RaisesForStatus(status) == 400 <= status /\ status < 600

\* one hit of a search reply; a hit that is not a dict is malformed
Hit(wellFormed) ==
    IF wellFormed
    THEN Obj([_source |-> Obj([message |-> Str("m")])])
    ELSE Str("x")

HitLists ==
    { [i \in 1..n |-> Hit(TRUE)] : n \in 0..MaxHits }
    \cup { <<Hit(FALSE)>> }

\* well-formed _search bodies: took, hits.total.value, hits.hits
SearchBodies ==
    { Obj([took |-> Num(tk),
           hits |-> Obj([total |-> Obj([value |-> Num(Len(hs) + extra)]),
                         hits |-> Arr(hs)])]) :
        tk \in {7}, hs \in HitLists, extra \in {0, 5} }

\* bodies that are JSON but not of the expected shape
OddBodies ==
    { EmptyDict,                                       \* no keys at all
      Arr(<<>>),                                       \* a list, not a dict
      Obj([took |-> Num(1),
           hits |-> Obj([total |-> Num(3),             \* total as a bare number
                         hits |-> Arr(<<Hit(TRUE)>>)])]),
      Obj([took |-> Num(1),
           hits |-> Obj([hits |-> Num(4)])]),          \* hits.hits not a list
      Obj([took |-> Num(1),
           hits |-> Obj([total |-> Obj([value |-> Str("many")]),
                         hits |-> Arr(<<Hit(TRUE)>>)])]) }  \* total.value a string

MappingDoc == Obj([idx |-> Obj([mappings |-> Str("properties")])])

MappingReplies ==
    [status : StatusCodes, body : {MappingDoc, Garbage}]

SearchReplies ==
    [status : StatusCodes, body : SearchBodies \cup OddBodies \cup {Garbage}]

\* str(e) of the exceptions get_index_data can catch
TransportErrors == {"ConnectionError", "Timeout"}

-----------------------------------------------------------------------------
(* OpenSearchClient.get_index_data *)

\* mutant: the failure envelope also carries an (empty) mapping
FetchFailureWithMapping(msg) ==
    [success |-> FALSE, error |-> msg, mapping |-> EmptyDict]

\* the except clause: {"success": False, "error": str(e)}
FetchFailure(msg) == [success |-> FALSE, error |-> msg]

\* hits = data.get('hits', {}).get('hits', [])
HitsOf(data) == Get(Get(data, "hits", EmptyDict), "hits", Arr(<<>>))

\* data.get('hits', {}).get('total', {}).get('value', 0)
TotalOf(data) ==
    Get(Get(Get(data, "hits", EmptyDict), "total", EmptyDict), "value", Num(0))

\* mapping_response.json() if mapping_response.ok else {}
MappingOf(mresp) == IF Ok(mresp.status) THEN Json(mresp.body) ELSE EmptyDict

\* lines 63-77: everything after the search reply has arrived, the
\* expressions evaluated in source order, the first one that raises
\* deciding the message of the failure envelope
EnvelopeOf(mresp, sresp) ==
    IF RaisesForStatus(sresp.status) THEN FetchFailure("HTTPError")
    ELSE LET data == Json(sresp.body) IN
    IF data = RAISED THEN FetchFailure("JSONDecodeError")
    ELSE LET hits == HitsOf(data) IN
    IF hits = RAISED THEN FetchFailure("AttributeError")
    ELSE IF MappingOf(mresp) = RAISED THEN FetchFailure("JSONDecodeError")
    ELSE IF PyLen(hits) = RAISED THEN FetchFailure("TypeError")
    ELSE IF TotalOf(data) = RAISED THEN FetchFailure("AttributeError")
    ELSE IF Get(data, "took", Num(0)) = RAISED THEN FetchFailure("AttributeError")
    ELSE [mapping     |-> MappingOf(mresp),
          documents   |-> data,
          sample_size |-> PyLen(hits).n,
          total_hits  |-> TotalOf(data),
          took_ms     |-> Get(data, "took", Num(0)),
          success     |-> TRUE]

\* mutant: a mapping request that fails in transport is sent once more
GetMappingRetries ==
    /\ pc = "fetch"
    /\ calls' = Append(calls, "mapping")
    /\ \/ \E r \in MappingReplies :
            /\ mapping_response' = r
            /\ pc' = "search"
            /\ UNCHANGED index_data
       \/ \E e \in TransportErrors :
            /\ IF Len(calls) < 1
               THEN UNCHANGED <<index_data, pc>>
               ELSE index_data' = FetchFailure(e) /\ pc' = "fetched"
            /\ UNCHANGED mapping_response
    /\ UNCHANGED <<request, search_response, now, client, attempt, sleeps,
                   outcomes, invoked, plan, metrics, response>>
    /\ UNCHANGED <<streamVars, promptVars>>
    /\ UNCHANGED <<serverVars, dashVars>>

\* lines 45-50: the mapping request; a transport exception ends the fetch
GetMapping ==
    /\ pc = "fetch"
    /\ calls' = Append(calls, "mapping")
    /\ \/ \E r \in MappingReplies :
            /\ mapping_response' = r
            /\ pc' = "search"
            /\ UNCHANGED index_data
       \/ \E e \in TransportErrors :
            /\ index_data' = FetchFailure(e)
            /\ pc' = "fetched"
            /\ UNCHANGED mapping_response
    /\ UNCHANGED <<request, search_response, now, client, attempt, sleeps,
                   outcomes, invoked, plan, metrics, response>>
    /\ UNCHANGED <<streamVars, promptVars>>
    /\ UNCHANGED <<serverVars, dashVars>>

\* lines 52-77: the search request and the construction of the envelope
PostSearch ==
    /\ pc = "search"
    /\ calls' = Append(calls, "search")
    /\ \/ \E r \in SearchReplies :
            /\ search_response' = r
            /\ index_data' = EnvelopeOf(mapping_response, r)
       \/ \E e \in TransportErrors :
            /\ index_data' = FetchFailure(e)
            /\ UNCHANGED search_response
    /\ pc' = "fetched"
    /\ UNCHANGED <<request, mapping_response, now, client, attempt, sleeps,
                   outcomes, invoked, plan, metrics, response>>
    /\ UNCHANGED <<streamVars, promptVars>>
    /\ UNCHANGED <<serverVars, dashVars>>

-----------------------------------------------------------------------------
(* The model backend and LLMClient.analyze_with_bedrock *)

\* self.max_retries
MaxRetries == 3

\* texts a model reply may carry as its first text segment
Texts == {"", "P", "Plan"}

\* bodies of invoke_model replies: undecodable, without content, with an
\* empty content list, and well-formed with one text segment
ModelBodies ==
    { Garbage, EmptyDict, Obj([content |-> Arr(<<>>)]) }
    \cup { Obj([content |-> Arr(<<Obj([text |-> Str(t)])>>)]) : t \in Texts }

\* lines 304-307: json.loads(response["body"].read())["content"][0]["text"]
ResponseText(body) == Item(Index(Item(Json(body), "content"), 0), "text")

Return(text) == [kind |-> "return", text |-> text]
Raise(msg) == [kind |-> "raise", msg |-> msg]

\* line 322: the message of the exception raised when the loop runs out
ExhaustedMessage == "All " \o ToString(MaxRetries) \o " attempts failed"

\* mutant: the ClientError handler sleeps after the final attempt as well
ClientErrorSleepAlways(a) == 1 * (a + 1)

\* lines 313-314: the sleep of the ClientError handler, 0 for no sleep
ClientErrorSleep(a) == IF a < MaxRetries - 1 THEN 1 * (a + 1) ELSE 0

\* mutant: the generic handler sleeps a flat second instead of 1 * (attempt + 1)
ExceptionSleepFlat(a) == IF a < MaxRetries - 1 THEN 1 ELSE 0

\* lines 319-320: the sleep of the generic handler, 0 for no sleep
ExceptionSleep(a) == IF a < MaxRetries - 1 THEN 1 * (a + 1) ELSE 0

\* time.sleep(d) inside a handler; d = 0 stands for the skipped call
Sleep(d) ==
    IF d > 0
    THEN /\ sleeps' = Append(sleeps, d)
         /\ now' = now + d
    ELSE UNCHANGED <<sleeps, now>>

\* mutant: the loop bound is off by one and a fourth attempt is made
NextAttemptOffByOne ==
    /\ attempt' = attempt + 1
    /\ IF attempt + 1 <= MaxRetries
       THEN /\ pc' = "attempt"
            /\ UNCHANGED invoked
       ELSE /\ pc' = "invoked"
            /\ invoked' = Raise(ExhaustedMessage)

\* line 282: the for loop moves to the next attempt, or falls through to
\* the raise of line 322 when range(self.max_retries) is used up
NextAttempt ==
    /\ attempt' = attempt + 1
    /\ IF attempt + 1 < MaxRetries
       THEN /\ pc' = "attempt"
            /\ UNCHANGED invoked
       ELSE /\ pc' = "invoked"
            /\ invoked' = Raise(ExhaustedMessage)

\* lines 279-280: the Bedrock client is created on first use, outside the
\* retry loop; boto3.client can raise (an invalid region name)
EnsureClient ==
    /\ pc = "invoke"
    /\ \/ /\ client' = TRUE
          /\ attempt' = 0
          /\ pc' = "attempt"
          /\ UNCHANGED invoked
       \/ /\ ~client
          /\ invoked' = Raise("InvalidRegionError")
          /\ pc' = "invoked"
          /\ UNCHANGED <<client, attempt>>
    /\ UNCHANGED <<request, calls, mapping_response, search_response,
                   index_data, now, sleeps, outcomes, plan, metrics, response>>
    /\ UNCHANGED <<streamVars, promptVars>>
    /\ UNCHANGED <<serverVars, dashVars>>

\* mutant: an empty text is handled like a failed attempt and retried
AttemptReturnsRetriesEmpty ==
    /\ pc = "attempt"
    /\ \E b \in ModelBodies :
         /\ ResponseText(b) # RAISED
         /\ outcomes' = Append(outcomes, [kind |-> "reply", body |-> b])
         /\ IF ResponseText(b).s = ""
            THEN NextAttempt
            ELSE /\ invoked' = Return(ResponseText(b).s)
                 /\ pc' = "invoked"
                 /\ UNCHANGED attempt
    /\ calls' = Append(calls, "model")
    /\ UNCHANGED <<request, mapping_response, search_response, index_data,
                   now, client, sleeps, plan, metrics, response>>
    /\ UNCHANGED <<streamVars, promptVars>>
    /\ UNCHANGED <<serverVars, dashVars>>

\* lines 298-308: invoke_model answers and the text is extracted
AttemptReturns ==
    /\ pc = "attempt"
    /\ \E b \in ModelBodies :
         /\ ResponseText(b) # RAISED
         /\ outcomes' = Append(outcomes, [kind |-> "reply", body |-> b])
         /\ invoked' = Return(ResponseText(b).s)
    /\ calls' = Append(calls, "model")
    /\ pc' = "invoked"
    /\ UNCHANGED <<request, mapping_response, search_response, index_data,
                   now, client, attempt, sleeps, plan, metrics, response>>
    /\ UNCHANGED <<streamVars, promptVars>>
    /\ UNCHANGED <<serverVars, dashVars>>

\* lines 298-301, 310-314: invoke_model raises ClientError
AttemptClientError ==
    /\ pc = "attempt"
    /\ outcomes' = Append(outcomes, [kind |-> "ClientError"])
    /\ calls' = Append(calls, "model")
    /\ Sleep(ClientErrorSleep(attempt))
    /\ NextAttempt
    /\ UNCHANGED <<request, mapping_response, search_response, index_data,
                   client, plan, metrics, response>>
    /\ UNCHANGED <<streamVars, promptVars>>
    /\ UNCHANGED <<serverVars, dashVars>>

\* mutant: a reply that cannot be decoded is retried at once, without the
\* sleep that follows a transport error
AttemptExceptionRetriesMalformedAtOnce ==
    /\ pc = "attempt"
    /\ \/ /\ outcomes' = Append(outcomes, [kind |-> "Exception"])
          /\ Sleep(ExceptionSleep(attempt))
       \/ /\ \E b \in ModelBodies :
               /\ ResponseText(b) = RAISED
               /\ outcomes' = Append(outcomes, [kind |-> "reply", body |-> b])
          /\ UNCHANGED <<sleeps, now>>
    /\ calls' = Append(calls, "model")
    /\ NextAttempt
    /\ UNCHANGED <<request, mapping_response, search_response, index_data,
                   client, plan, metrics, response>>
    /\ UNCHANGED <<streamVars, promptVars>>
    /\ UNCHANGED <<serverVars, dashVars>>

\* lines 298-307, 316-320: invoke_model raises another exception, or its
\* reply cannot be decoded down to the first text segment
AttemptException ==
    /\ pc = "attempt"
    /\ \/ outcomes' = Append(outcomes, [kind |-> "Exception"])
       \/ \E b \in ModelBodies :
            /\ ResponseText(b) = RAISED
            /\ outcomes' = Append(outcomes, [kind |-> "reply", body |-> b])
    /\ calls' = Append(calls, "model")
    /\ Sleep(ExceptionSleep(attempt))
    /\ NextAttempt
    /\ UNCHANGED <<request, mapping_response, search_response, index_data,
                   client, plan, metrics, response>>
    /\ UNCHANGED <<streamVars, promptVars>>
    /\ UNCHANGED <<serverVars, dashVars>>

-----------------------------------------------------------------------------
(* ChaosPlanGenerator *)

\* the limit of the slice hits[:1000]
SampleCap == 1000

\* dict.update and item assignment on a dict built by the code
Update(d, u) ==
    [k \in DOMAIN d \cup DOMAIN u |-> IF k \in DOMAIN u THEN u[k] ELSE d[k]]

\* mutant: the plan is not tested for emptiness
TruthyAlways(text) == TRUE

\* Python truthiness of a str
Truthy(text) == text # ""

\* hits[:1000]
Sliced(hits) == SubSeq(hits, 1, IF Len(hits) < SampleCap THEN Len(hits) ELSE SampleCap)

\* lines 422-436: the loop over the sliced hits raises when a hit or its
\* _source has no .get
SampleRaises(hits) ==
    \E i \in DOMAIN Sliced(hits) :
        Get(Sliced(hits)[i], "_source", EmptyDict).t # "obj"

\* d.get(k, default) on a dict built by the code
DictGet(d, k, default) == IF k \in DOMAIN d THEN d[k] ELSE default

\* lines 418-450: _create_prompt; the prompt is kept as the values the
\* template interpolates, or the exception the construction raises
\* (the loop over the hits, then the {...:,} format of total_hits)
CreatePrompt(index_name, data, options) ==
    LET hits == HitsOf(DictGet(data, "documents", EmptyDict))
        total == DictGet(data, "total_hits", Num(0))
    IN  IF hits.t # "arr" THEN Raise("TypeError")
        ELSE IF SampleRaises(hits.s) THEN Raise("AttributeError")
        ELSE IF total.t # "num" THEN Raise("ValueError")
        ELSE [kind       |-> "prompt",
              index_name |-> index_name,
              total_hits |-> total.n,
              took_ms    |-> DictGet(data, "took_ms", Num(0)),
              fetched    |-> Len(hits.s),
              sample     |-> Len(Sliced(hits.s)),
              options    |-> options]

\* mutant: generate_plan has no except clause, a failure of the prompt
\* construction leaves it as an exception, which the handler reports
GeneratePlanBeginUncaught ==
    /\ pc = "generate"
    /\ LET started == [start_time |-> now, success |-> FALSE, error |-> NoneValue]
           prompt == CreatePrompt(request.index_name, index_data,
                                  request.analysis_options)
       IN IF prompt.kind = "raise"
          THEN /\ metrics' = started
               /\ response' = [success |-> FALSE, error |-> prompt.msg]
               /\ pc' = "done"
               /\ UNCHANGED <<calls, plan>>
          ELSE /\ metrics' = started
               /\ calls' = Append(calls, "prompt")
               /\ pc' = "invoke"
               /\ UNCHANGED <<plan, response>>
    /\ UNCHANGED <<request, mapping_response, search_response, index_data,
                   now, client, attempt, sleeps, outcomes, invoked>>
    /\ UNCHANGED <<streamVars, promptVars>>
    /\ UNCHANGED <<serverVars, dashVars>>

\* lines 377-385 and 402-404: generate_plan starts its metrics and builds
\* the prompt; a failure of the construction is caught and reported
GeneratePlanBegin ==
    /\ pc = "generate"
    /\ LET started == [start_time |-> now, success |-> FALSE, error |-> NoneValue]
           prompt == CreatePrompt(request.index_name, index_data,
                                  request.analysis_options)
       IN IF prompt.kind = "raise"
          THEN /\ metrics' = Update(started, [error |-> prompt.msg])
               /\ plan' = ""
               /\ pc' = "returned"
               /\ UNCHANGED calls
          ELSE /\ metrics' = started
               /\ calls' = Append(calls, "prompt")
               /\ pc' = "invoke"
               /\ UNCHANGED plan
    /\ UNCHANGED <<request, mapping_response, search_response, index_data,
                   now, client, attempt, sleeps, outcomes, invoked, response>>
    /\ UNCHANGED <<streamVars, promptVars>>
    /\ UNCHANGED <<serverVars, dashVars>>

\* mutant: the except clause of generate_plan returns without recording
\* the message of the exception
GeneratePlanFinishDropsError ==
    /\ pc = "invoked"
    /\ IF invoked.kind = "raise"
       THEN /\ plan' = ""
            /\ UNCHANGED <<metrics, now>>
       ELSE IF Truthy(invoked.text)
       THEN \E later \in now..(now + 1) :
            /\ metrics' = Update(metrics,
                              [success          |-> TRUE,
                               end_time         |-> now,
                               duration_seconds |-> later - metrics.start_time,
                               plan_length      |-> Len(invoked.text)])
            /\ plan' = invoked.text
            /\ now' = later
       ELSE /\ metrics' = Update(metrics, [error |-> "Empty response from LLM"])
            /\ plan' = ""
            /\ UNCHANGED now
    /\ pc' = "returned"
    /\ UNCHANGED <<request, calls, mapping_response, search_response,
                   index_data, client, attempt, sleeps, outcomes, invoked,
                   response>>
    /\ UNCHANGED <<streamVars, promptVars>>
    /\ UNCHANGED <<serverVars, dashVars>>

\* mutant: the end time and the duration are recorded on every return of
\* generate_plan, not only on success
GeneratePlanFinishTimesFailure ==
    /\ pc = "invoked"
    /\ IF invoked.kind = "raise"
       THEN /\ metrics' = Update(metrics,
                              [error            |-> invoked.msg,
                               end_time         |-> now,
                               duration_seconds |-> now - metrics.start_time])
            /\ plan' = ""
            /\ UNCHANGED now
       ELSE IF Truthy(invoked.text)
       THEN \E later \in now..(now + 1) :
            /\ metrics' = Update(metrics,
                              [success          |-> TRUE,
                               end_time         |-> now,
                               duration_seconds |-> later - metrics.start_time,
                               plan_length      |-> Len(invoked.text)])
            /\ plan' = invoked.text
            /\ now' = later
       ELSE /\ metrics' = Update(metrics,
                              [error            |-> "Empty response from LLM",
                               end_time         |-> now,
                               duration_seconds |-> now - metrics.start_time])
            /\ plan' = ""
            /\ UNCHANGED now
    /\ pc' = "returned"
    /\ UNCHANGED <<request, calls, mapping_response, search_response,
                   index_data, client, attempt, sleeps, outcomes, invoked,
                   response>>
    /\ UNCHANGED <<streamVars, promptVars>>
    /\ UNCHANGED <<serverVars, dashVars>>

\* lines 388-404: generate_plan receives the outcome of analyze_with_bedrock;
\* time.time() is read twice on success, the clock may move in between
GeneratePlanFinish ==
    /\ pc = "invoked"
    /\ IF invoked.kind = "raise"
       THEN /\ metrics' = Update(metrics, [error |-> invoked.msg])
            /\ plan' = ""
            /\ UNCHANGED now
       ELSE IF Truthy(invoked.text)
       THEN \E later \in now..(now + 1) :
            /\ metrics' = Update(metrics,
                              [success          |-> TRUE,
                               end_time         |-> now,
                               duration_seconds |-> later - metrics.start_time,
                               plan_length      |-> Len(invoked.text)])
            /\ plan' = invoked.text
            /\ now' = later
       ELSE /\ metrics' = Update(metrics, [error |-> "Empty response from LLM"])
            /\ plan' = ""
            /\ UNCHANGED now
    /\ pc' = "returned"
    /\ UNCHANGED <<request, calls, mapping_response, search_response,
                   index_data, client, attempt, sleeps, outcomes, invoked,
                   response>>
    /\ UNCHANGED <<streamVars, promptVars>>
    /\ UNCHANGED <<serverVars, dashVars>>

-----------------------------------------------------------------------------
(* The handler of POST /api/chaos/generate *)

\* GeneratePlanResponse; a field left at None is left out of the record
PlanResponse(ok_plan, ok_metrics) ==
    [success |-> TRUE, plan |-> ok_plan, metrics |-> ok_metrics]
ErrorResponse(msg) == [success |-> FALSE, error |-> msg]

\* requests the handler is called with; analysis_options may be null
Requests ==
    [index_name : {"app-logs-2024"}, analysis_options : {"options", NoneValue}]

\* mutant: the handler does not look at the success flag of the fetch
CheckFetchIgnoresFailure ==
    /\ pc = "fetched"
    /\ IF request.analysis_options = NoneValue
       THEN /\ response' = ErrorResponse("AttributeError")
            /\ pc' = "done"
       ELSE /\ pc' = "generate"
            /\ UNCHANGED response
    /\ UNCHANGED <<request, calls, mapping_response, search_response,
                   index_data, now, client, attempt, sleeps, outcomes,
                   invoked, plan, metrics>>
    /\ UNCHANGED <<streamVars, promptVars>>
    /\ UNCHANGED <<serverVars, dashVars>>

\* lines 162-174 and 188-190: the fetch result is checked, the generator
\* built and the arguments of generate_plan evaluated
CheckFetch ==
    /\ pc = "fetched"
    /\ IF ~index_data.success
       THEN /\ response' = ErrorResponse("Failed to fetch index data: "
                                          \o index_data.error)
            /\ pc' = "done"
       ELSE IF request.analysis_options = NoneValue
       THEN /\ response' = ErrorResponse("AttributeError")
            /\ pc' = "done"
       ELSE /\ pc' = "generate"
            /\ UNCHANGED response
    /\ UNCHANGED <<request, calls, mapping_response, search_response,
                   index_data, now, client, attempt, sleeps, outcomes,
                   invoked, plan, metrics>>
    /\ UNCHANGED <<streamVars, promptVars>>
    /\ UNCHANGED <<serverVars, dashVars>>

\* lines 176-186: the result of generate_plan becomes the response
Respond ==
    /\ pc = "returned"
    /\ response' = IF metrics.success
                   THEN PlanResponse(plan, metrics)
                   ELSE ErrorResponse(metrics.error)
    /\ pc' = "done"
    /\ UNCHANGED <<request, calls, mapping_response, search_response,
                   index_data, now, client, attempt, sleeps, outcomes,
                   invoked, plan, metrics>>
    /\ UNCHANGED <<streamVars, promptVars>>
    /\ UNCHANGED <<serverVars, dashVars>>

\* time passes while the request is being served
Tick ==
    /\ pc # "done"
    /\ now < MaxClock
    /\ now' = now + 1
    /\ UNCHANGED <<pc, request, calls, mapping_response, search_response,
                   index_data, client, attempt, sleeps, outcomes, invoked,
                   plan, metrics, response>>
    /\ UNCHANGED <<streamVars, promptVars>>
    /\ UNCHANGED <<serverVars, dashVars>>

\* lines 146-157: the handler has built its two clients; nothing is sent
Init ==
    /\ pc = "fetch"
    /\ request \in Requests
    /\ calls = <<>>
    /\ mapping_response = Unset
    /\ search_response = Unset
    /\ index_data = Unset
    /\ now = 0
    /\ client = FALSE
    /\ attempt = 0
    /\ sleeps = <<>>
    /\ outcomes = <<>>
    /\ invoked = Unset
    /\ plan = NoneValue
    /\ metrics = Unset
    /\ response = Unset
    /\ handle = "none"
    /\ consumed = <<>>
    /\ yielded = <<>>
    /\ sent = <<>>
    /\ consumer = "pulling"
    /\ sample_docs = <<>>
    /\ inflight = [r \in RequestIds |-> NotStarted]
    /\ handles = 0
    /\ served = <<>>
    /\ session = SessionStart
    /\ history = HistoryStart

Next ==
    \/ GetMapping
    \/ PostSearch
    \/ CheckFetch
    \/ GeneratePlanBegin
    \/ EnsureClient
    \/ AttemptReturns
    \/ AttemptClientError
    \/ AttemptException
    \/ GeneratePlanFinish
    \/ Respond
    \/ Tick

Spec == Init /\ [][Next]_vars

-----------------------------------------------------------------------------
(* The streaming path: POST /api/chaos/generate/stream (backend/main.py),  *)
(* ChaosPlanGenerator.generate_plan_streaming and                          *)
(* LLMClient.analyze_with_bedrock_streaming (chaos_code.py).               *)
(*                                                                         *)
(* A text that travels on this path is a sequence of runs: a run is a      *)
(* string without line break, or the line break LF.  "Root" is <<"Root">>, *)
(* "a\nb" is <<"a", LF, "b">>, the empty text is <<>>.                      *)

\* largest number of provider events read from one response stream
MaxEvents == 3

LF == "\n"

\* the texts a content_block_delta event may carry
DeltaTexts ==
    { <<>>, <<"Root">>, <<" cause">>, <<": pod">>, <<"a", LF, "b">> }

\* the bytes of one event of the response stream, decoded
ChunkBodies ==
    { Obj([type |-> Str("content_block_delta"), delta |-> Obj([text |-> Str(t)])]) :
        t \in DeltaTexts }
    \cup { Obj([type |-> Str("content_block_delta"),       \* a delta without text
                delta |-> Obj([partial_json |-> Str(<<"{">>)])]),
           Obj([type |-> Str("message_start")]),             \* another type
           Obj([type |-> Str("content_block_delta")]),      \* no delta
           Obj([index |-> Num(0)]),                          \* no type
           Garbage }                                         \* not JSON

\* what iterating streaming_response["body"] produces next: an event, or
\* an exception of the event stream
ProviderEvents ==
    { [kind |-> "chunk", body |-> b] : b \in ChunkBodies }
    \cup { [kind |-> "EventStreamError"] }

Skip == [kind |-> "skip"]
Yield(text) == [kind |-> "yield", text |-> text]

\* mutant: every content_block_delta event is yielded, also with no text
DeltaOfUnfiltered(event) ==
    IF event.kind # "chunk" THEN Raise(event.kind)
    ELSE LET chunk == Json(event.body) IN
         IF chunk = RAISED THEN Raise("JSONDecodeError")
         ELSE IF Item(chunk, "type") = RAISED THEN Raise("KeyError")
         ELSE IF Item(chunk, "type").s # "content_block_delta" THEN Skip
         ELSE IF Item(chunk, "delta") = RAISED THEN Raise("KeyError")
         ELSE Yield(Get(Item(chunk, "delta"), "text", Str(<<>>)).s)

\* lines 352-357: the body of the loop over the events, for one event
DeltaOf(event) ==
    IF event.kind # "chunk" THEN Raise(event.kind)
    ELSE LET chunk == Json(event.body) IN
         IF chunk = RAISED THEN Raise("JSONDecodeError")
         ELSE IF Item(chunk, "type") = RAISED THEN Raise("KeyError")
         ELSE IF Item(chunk, "type").s # "content_block_delta" THEN Skip
         ELSE IF Item(chunk, "delta") = RAISED THEN Raise("KeyError")
         ELSE LET text == Get(Item(chunk, "delta"), "text", Str(<<>>)) IN
              IF text.s # <<>> THEN Yield(text.s) ELSE Skip

\* main.py line 224: f"data: {chunk}\n\n"
Frame(chunk) == <<"data: ">> \o chunk \o <<LF, LF>>

\* main.py lines 212 and 228: f"data: {{\"error\": \"{msg}\"}}\n\n"
ErrorEvent(msg) == <<"data: ", "{\"error\": \"", msg, "\"}", LF, LF>>

\* StopIteration: the fragment sequence ended
Stop == [kind |-> "stop"]

\* what the streaming path leaves alone: the retry loop, the result of
\* generate_plan, the blocking response, the clock, the prompt loop
blockingVars == <<now, attempt, sleeps, plan, metrics, response>>

\* mutant: the generator does not look at the success flag of the fetch
StreamCheckFetchIgnoresFailure ==
    /\ pc = "fetched"
    /\ IF request.analysis_options = NoneValue
       THEN /\ invoked' = Raise("AttributeError")
            /\ pc' = "stream_raised"
       ELSE /\ pc' = "stream_prompt"
            /\ UNCHANGED invoked
    /\ UNCHANGED <<request, calls, mapping_response, search_response,
                   index_data, client, outcomes, streamVars>>
    /\ UNCHANGED <<blockingVars, promptVars>>
    /\ UNCHANGED <<serverVars, dashVars>>

\* main.py lines 211-222: the fetch result is checked; on failure one error
\* event is yielded and the generator returns; otherwise the generator is
\* built and the arguments of generate_plan_streaming are evaluated
StreamCheckFetch ==
    /\ pc = "fetched"
    /\ IF ~index_data.success
       THEN /\ sent' = Append(sent, ErrorEvent("Failed to fetch index data: "
                                                \o index_data.error))
            /\ pc' = "yielded_error"
            /\ UNCHANGED invoked
       ELSE IF request.analysis_options = NoneValue
       THEN /\ invoked' = Raise("AttributeError")
            /\ pc' = "stream_raised"
            /\ UNCHANGED sent
       ELSE /\ pc' = "stream_prompt"
            /\ UNCHANGED <<sent, invoked>>
    /\ UNCHANGED <<request, calls, mapping_response, search_response,
                   index_data, client, outcomes, handle, consumed, yielded,
                   consumer>>
    /\ UNCHANGED <<blockingVars, promptVars>>
    /\ UNCHANGED <<serverVars, dashVars>>

\* chaos_code.py line 413: generate_plan_streaming builds the prompt; it has
\* no try, an exception of the construction leaves the generator
StreamPrompt ==
    /\ pc = "stream_prompt"
    /\ LET prompt == CreatePrompt(request.index_name, index_data,
                                  request.analysis_options)
       IN IF prompt.kind = "raise"
          THEN /\ invoked' = Raise(prompt.msg)
               /\ pc' = "stream_raised"
               /\ UNCHANGED calls
          ELSE /\ calls' = Append(calls, "prompt")
               /\ pc' = "stream_invoke"
               /\ UNCHANGED invoked
    /\ UNCHANGED <<request, mapping_response, search_response, index_data,
                   client, outcomes, streamVars>>
    /\ UNCHANGED <<blockingVars, promptVars>>
    /\ UNCHANGED <<serverVars, dashVars>>

\* mutant: a request that fails is sent again
StreamInvokeRetries ==
    /\ pc = "stream_invoke"
    /\ client' = TRUE
    /\ calls' = Append(calls, "model_stream")
    /\ \/ /\ outcomes' = Append(outcomes, [kind |-> "stream"])
          /\ handle' = "open"
          /\ pc' = "stream_read"
          /\ UNCHANGED invoked
       \/ \E e \in {"ClientError", "Exception"} :
          /\ Len(outcomes) < MaxRetries
          /\ outcomes' = Append(outcomes, [kind |-> e])
          /\ pc' = "stream_invoke"
          /\ UNCHANGED <<invoked, handle>>
    /\ UNCHANGED <<request, mapping_response, search_response, index_data,
                   consumed, yielded, sent, consumer>>
    /\ UNCHANGED <<blockingVars, promptVars>>
    /\ UNCHANGED <<serverVars, dashVars>>

\* chaos_code.py lines 329-349: the client is created if missing and the
\* one request invoke_model_with_response_stream is sent; it answers with a
\* response stream or raises
StreamInvoke ==
    /\ pc = "stream_invoke"
    /\ client' = TRUE
    /\ calls' = Append(calls, "model_stream")
    /\ \/ /\ outcomes' = Append(outcomes, [kind |-> "stream"])
          /\ handle' = "open"
          /\ pc' = "stream_read"
          /\ UNCHANGED invoked
       \/ \E e \in {"ClientError", "Exception"} :
          /\ outcomes' = Append(outcomes, [kind |-> e])
          /\ invoked' = Raise(e)
          /\ pc' = "stream_raised"
          /\ UNCHANGED handle
    /\ UNCHANGED <<request, mapping_response, search_response, index_data,
                   consumed, yielded, sent, consumer>>
    /\ UNCHANGED <<blockingVars, promptVars>>
    /\ UNCHANGED <<serverVars, dashVars>>

\* chaos_code.py lines 352-357 and 416, main.py line 224: the next event of
\* the response stream is read; a text delta is yielded up to
\* plan_generator_stream, which yields it framed and is suspended there; an
\* exception leaves both generators of chaos_code.py
StreamRead ==
    /\ pc = "stream_read"
    /\ Len(consumed) < MaxEvents
    /\ \E event \in ProviderEvents :
        /\ consumed' = Append(consumed, event)
        /\ LET d == DeltaOf(event) IN
           CASE d.kind = "raise" ->
                    /\ invoked' = Raise(d.msg)
                    /\ pc' = "stream_raised"
                    /\ UNCHANGED <<yielded, sent>>
             [] d.kind = "skip" ->
                    /\ UNCHANGED <<pc, invoked, yielded, sent>>
             [] d.kind = "yield" ->
                    /\ yielded' = Append(yielded, d.text)
                    /\ sent' = Append(sent, Frame(d.text))
                    /\ pc' = "yielded_chunk"
                    /\ UNCHANGED invoked
    /\ UNCHANGED <<request, calls, mapping_response, search_response,
                   index_data, client, outcomes, handle, consumer>>
    /\ UNCHANGED <<blockingVars, promptVars>>
    /\ UNCHANGED <<serverVars, dashVars>>

\* chaos_code.py line 352: the response stream is exhausted, its connection
\* goes back to the pool, the loops end and the generators return
StreamEnd ==
    /\ pc = "stream_read"
    /\ invoked' = Stop
    /\ handle' = "released"
    /\ pc' = "closed"
    /\ UNCHANGED <<request, calls, mapping_response, search_response,
                   index_data, client, outcomes, consumed, yielded, sent,
                   consumer>>
    /\ UNCHANGED <<blockingVars, promptVars>>
    /\ UNCHANGED <<serverVars, dashVars>>

\* mutant: plan_generator_stream has no except clause, the exception leaves
\* it and the stream breaks off
StreamCatchMissing ==
    /\ pc = "stream_raised"
    /\ pc' = "crashed"
    /\ UNCHANGED <<request, calls, mapping_response, search_response,
                   index_data, client, outcomes, invoked, streamVars>>
    /\ UNCHANGED <<blockingVars, promptVars>>
    /\ UNCHANGED <<serverVars, dashVars>>

\* main.py lines 226-228: the exception is caught and one error event is
\* yielded
StreamCatch ==
    /\ pc = "stream_raised"
    /\ sent' = Append(sent, ErrorEvent(invoked.msg))
    /\ pc' = "yielded_error"
    /\ UNCHANGED <<request, calls, mapping_response, search_response,
                   index_data, client, outcomes, invoked, handle, consumed,
                   yielded, consumer>>
    /\ UNCHANGED <<blockingVars, promptVars>>
    /\ UNCHANGED <<serverVars, dashVars>>

\* the receiver asks for the next event: the generator resumes after its
\* yield, in the loop (line 224) or at its end (lines 213, 228)
Pull ==
    /\ pc \in {"yielded_chunk", "yielded_error"}
    /\ consumer = "pulling"
    /\ pc' = IF pc = "yielded_chunk" THEN "stream_read" ELSE "closed"
    /\ UNCHANGED <<request, calls, mapping_response, search_response,
                   index_data, client, outcomes, invoked, streamVars>>
    /\ UNCHANGED <<blockingVars, promptVars>>
    /\ UNCHANGED <<serverVars, dashVars>>

\* the receiver goes away while the generator is suspended at a yield
Abandon ==
    /\ pc \in {"yielded_chunk", "yielded_error"}
    /\ consumer = "pulling"
    /\ consumer' = "abandoned"
    /\ UNCHANGED <<pc, request, calls, mapping_response, search_response,
                   index_data, client, outcomes, invoked, handle, consumed,
                   yielded, sent>>
    /\ UNCHANGED <<blockingVars, promptVars>>
    /\ UNCHANGED <<serverVars, dashVars>>

\* the code has no close(), with or finally on this path (chaos_code.py
\* 346-357, main.py 218-224): an abandoned response stream is given up only
\* when the interpreter finalises the suspended generators, which it may do
\* at any time or never
Finalize ==
    /\ consumer = "abandoned"
    /\ pc \in {"yielded_chunk", "yielded_error"}
    /\ handle' = IF handle = "open" THEN "released" ELSE handle
    /\ pc' = "closed"
    /\ UNCHANGED <<request, calls, mapping_response, search_response,
                   index_data, client, outcomes, invoked, consumed, yielded,
                   sent, consumer>>
    /\ UNCHANGED <<blockingVars, promptVars>>
    /\ UNCHANGED <<serverVars, dashVars>>

\* a step of the generators, driven by the receiver's pulls
StreamStep ==
    \/ GetMapping
    \/ PostSearch
    \/ StreamCheckFetch
    \/ StreamPrompt
    \/ StreamInvoke
    \/ StreamRead
    \/ StreamEnd
    \/ StreamCatch
    \/ Pull

NextStream ==
    \/ StreamStep
    \/ Abandon
    \/ Finalize

SpecStream == Init /\ [][NextStream]_vars

\* the generators and a receiver that pulls take their steps; the receiver
\* is free to go away and the interpreter is free not to finalise
SpecStreamFair ==
    /\ Init
    /\ [][NextStream]_vars
    /\ WF_vars(StreamStep)

-----------------------------------------------------------------------------
(* The sample of ChaosPlanGenerator._create_prompt (chaos_code.py 418-436): *)
(* the loop that turns the first 1000 hits into normalized entries.        *)

\* short hit lists are tried up to this length
MaxDocs == 2

\* bool(v) of a decoded JSON value
IsTruthy(v) ==
    CASE v.t = "null" -> FALSE
      [] v.t = "str"  -> v.s # ""
      [] v.t = "num"  -> v.n # 0
      [] v.t = "arr"  -> v.s # <<>>
      [] v.t = "obj"  -> DOMAIN v.f # {}

\* repr(v) of a scalar value of a document
Repr(v) ==
    CASE v.t = "null" -> "None"
      [] v.t = "str"  -> "'" \o v.s \o "'"
      [] v.t = "num"  -> ToString(v.n)

\* the keys of a log document, in the order the documents list them
KeyOrder ==
    <<"@timestamp", "timestamp", "level", "severity", "service", "app",
      "message", "log">>

RECURSIVE ReprItems(_, _, _)
ReprItems(source, keys, sep) ==
    IF keys = <<>> THEN ""
    ELSE IF Head(keys) \in DOMAIN source.f
    THEN sep \o "'" \o Head(keys) \o "': " \o Repr(source.f[Head(keys)])
             \o ReprItems(source, Tail(keys), ", ")
    ELSE ReprItems(source, Tail(keys), sep)

\* line 428: str(source), the rendering of the whole raw record
Render(source) == "{" \o ReprItems(source, KeyOrder, "") \o "}"

\* mutant: the log field is tried before the message field
MessageOfLogFirst(source) ==
    IF IsTruthy(Get(source, "log", Null)) THEN Get(source, "log", Null)
    ELSE IF IsTruthy(Get(source, "message", Null)) THEN Get(source, "message", Null)
    ELSE Str(Render(source))

\* line 428: source.get("message") or source.get("log") or str(source)
MessageOf(source) ==
    IF IsTruthy(Get(source, "message", Null)) THEN Get(source, "message", Null)
    ELSE IF IsTruthy(Get(source, "log", Null)) THEN Get(source, "log", Null)
    ELSE Str(Render(source))

\* mutant: the secondary key is looked up first
FirstOfSwapped(source, primary, secondary) ==
    Get(source, secondary, Get(source, primary, Str("N/A")))

\* lines 432, 434, 435: source.get(primary, source.get(secondary, "N/A"))
FirstOf(source, primary, secondary) ==
    Get(source, primary, Get(source, secondary, Str("N/A")))

\* lines 426-436: the entry appended for hit number i of enumerate
SampleEntry(i, hit) ==
    LET source == Get(hit, "_source", EmptyDict) IN
    [doc       |-> i + 1,
     timestamp |-> FirstOf(source, "@timestamp", "timestamp"),
     message   |-> MessageOf(source),
     level     |-> FirstOf(source, "level", "severity"),
     service   |-> FirstOf(source, "service", "app")]

\* a raw record: each key is absent or carries one of its values
Absent == [t |-> "absent"]
RawRecord(a) == Obj([k \in { k \in DOMAIN a : a[k] # Absent } |-> a[k]])

RawRecords ==
    { RawRecord([message |-> m, log |-> l, level |-> lv, severity |-> sv,
                 service |-> sc, app |-> ap]
                @@ ("@timestamp" :> at) @@ ("timestamp" :> ts)) :
        m  \in {Absent, Null, Str(""), Str("boom")},
        l  \in {Absent, Str(""), Str("line")},
        at \in {Absent, Null, Str("t1")},
        ts \in {Absent, Str("t2")},
        lv \in {Absent, Str(""), Str("ERROR")},
        sv \in {Absent, Str("high")},
        sc \in {Absent, Null, Str("api")},
        ap \in {Absent, Str("web")} }

\* records for the longer lists: told apart by their message
FewRecords ==
    { Obj([message |-> Str("boom"), level |-> Str("ERROR")]),
      Obj([log |-> Str("line"), app |-> Str("web")]),
      Obj([severity |-> Str("high")]) }

DocHit(source) == Obj([_id |-> Str("id"), _source |-> source])

\* hit i of a long reply, told apart by its number
NumberedHit(i) == DocHit(Obj([message |-> Str(ToString(i))]))

RECURSIVE ListsUpTo(_, _)
ListsUpTo(S, n) ==
    IF n = 0 THEN { <<>> }
    ELSE ListsUpTo(S, n - 1)
         \cup { Append(q, x) : q \in { r \in ListsUpTo(S, n - 1) : Len(r) = n - 1 },
                               x \in S }

\* the hit lists the sample is built from: every raw record on its own,
\* short lists, a hit without _source, a hit that is not a dict after a good
\* one, and replies just below, at and just above the cap
PromptHitLists ==
    { <<DocHit(r)>> : r \in RawRecords }
    \cup { [i \in DOMAIN q |-> DocHit(q[i])] : q \in ListsUpTo(FewRecords, MaxDocs) }
    \cup { <<Obj([_id |-> Str("id")])>>,
           <<DocHit(Obj([message |-> Str("boom")])), Str("x")>> }
    \cup { [i \in 1..n |-> NumberedHit(i)] :
             n \in {SampleCap - 1, SampleCap, SampleCap + 1} }

\* the _search reply carrying the hits
PromptReply(hs) ==
    [status |-> 200,
     body |-> Obj([took |-> Num(7),
                   hits |-> Obj([total |-> Obj([value |-> Num(Len(hs))]),
                                 hits |-> Arr(hs)])])]

\* line 422: hits
PromptHits == HitsOf(DictGet(index_data, "documents", EmptyDict)).s

\* mutant: the loop runs over all hits
LoopHitsUncapped == PromptHits

\* line 425: hits[:1000]
LoopHits == Sliced(PromptHits)

\* the hit the loop is about to handle has a .get, and so has its _source
NextHitUsable ==
    LET hit == LoopHits[Len(sample_docs) + 1] IN
    /\ hit.t = "obj"
    /\ Get(hit, "_source", EmptyDict).t = "obj"

\* lines 425-436: one iteration of the loop
SampleAppend ==
    /\ pc = "prompt"
    /\ Len(sample_docs) < Len(LoopHits)
    /\ NextHitUsable
    /\ sample_docs' = Append(sample_docs,
                             SampleEntry(Len(sample_docs),
                                         LoopHits[Len(sample_docs) + 1]))
    /\ UNCHANGED <<pc, request, calls, mapping_response, search_response,
                   index_data, client, outcomes, invoked>>
    /\ UNCHANGED <<blockingVars, streamVars>>
    /\ UNCHANGED <<serverVars, dashVars>>

\* lines 426-428: hit.get or source.get raises AttributeError
SampleRaise ==
    /\ pc = "prompt"
    /\ Len(sample_docs) < Len(LoopHits)
    /\ ~NextHitUsable
    /\ invoked' = Raise("AttributeError")
    /\ pc' = "prompt_raised"
    /\ UNCHANGED <<request, calls, mapping_response, search_response,
                   index_data, client, outcomes, sample_docs>>
    /\ UNCHANGED <<blockingVars, streamVars>>
    /\ UNCHANGED <<serverVars, dashVars>>

\* line 425: the loop is over, the sample goes into the prompt
SampleDone ==
    /\ pc = "prompt"
    /\ Len(sample_docs) = Len(LoopHits)
    /\ calls' = Append(calls, "prompt")
    /\ pc' = "prompt_built"
    /\ UNCHANGED <<request, mapping_response, search_response, index_data,
                   client, outcomes, invoked, sample_docs>>
    /\ UNCHANGED <<blockingVars, streamVars>>
    /\ UNCHANGED <<serverVars, dashVars>>

\* _create_prompt is entered with the envelope of a successful fetch
InitPrompt ==
    /\ pc = "prompt"
    /\ request \in { r \in Requests : r.analysis_options # NoneValue }
    /\ calls = <<"mapping", "search">>
    /\ mapping_response = [status |-> 200, body |-> MappingDoc]
    /\ search_response \in { PromptReply(hs) : hs \in PromptHitLists }
    /\ index_data = EnvelopeOf(mapping_response, search_response)
    /\ now = 0
    /\ client = FALSE
    /\ attempt = 0
    /\ sleeps = <<>>
    /\ outcomes = <<>>
    /\ invoked = Unset
    /\ plan = NoneValue
    /\ metrics = Unset
    /\ response = Unset
    /\ handle = "none"
    /\ consumed = <<>>
    /\ yielded = <<>>
    /\ sent = <<>>
    /\ consumer = "pulling"
    /\ sample_docs = <<>>
    /\ inflight = [r \in RequestIds |-> NotStarted]
    /\ handles = 0
    /\ served = <<>>
    /\ session = SessionStart
    /\ history = HistoryStart

NextPrompt ==
    \/ SampleAppend
    \/ SampleRaise
    \/ SampleDone

SpecPrompt == InitPrompt /\ [][NextPrompt]_vars

-----------------------------------------------------------------------------
(* The API server handling several generate requests (backend/main.py):    *)
(* each request runs generate_chaos_plan or plan_generator_stream with its *)
(* own locals.  The steps of one request are those of Spec and SpecStream  *)
(* taken whole: the fetch, then the model invocation.                      *)

ServerIndexNames == {"logs-a", "logs-b"}

\* what get_index_data may return to a request
ServerEnvelopes ==
    { EnvelopeOf([status |-> 200, body |-> MappingDoc], s) :
        s \in { PromptReply(<<DocHit(Obj([message |-> Str("boom")]))>>),
                [status |-> 404, body |-> EmptyDict] } }
    \cup { FetchFailure("Timeout") }

\* what the model invocation of a request may end in
ModelOutcomes == { Return("Plan"), Raise(ExhaustedMessage) }

\* main.py lines 162-166 and 211-213: the answer to a failed fetch
FetchErrorResult(kind, data) ==
    IF kind = "generate"
    THEN ErrorResponse("Failed to fetch index data: " \o data.error)
    ELSE <<ErrorEvent("Failed to fetch index data: " \o data.error)>>

\* main.py lines 176-186 and 224-228: the answer after the model invocation
ModelResult(kind, outcome) ==
    IF kind = "generate"
    THEN IF outcome.kind = "return"
         THEN PlanResponse(outcome.text,
                           [success |-> TRUE, plan_length |-> Len(outcome.text)])
         ELSE ErrorResponse(outcome.msg)
    ELSE IF outcome.kind = "return"
         THEN <<Frame(<<outcome.text>>)>>
         ELSE <<ErrorEvent(outcome.msg)>>

\* mutant: the LLM client is a module-level object shared by the requests
ArriveSharedClient(r) ==
    /\ inflight[r].pc = "idle"
    /\ \E kind \in {"generate", "stream"}, name \in ServerIndexNames :
        inflight' = [inflight EXCEPT ![r] =
                        [pc |-> "fetch", kind |-> kind, index_name |-> name,
                         os_client |-> handles + 1, llm_client |-> 100,
                         index_data |-> Null, result |-> Null]]
    /\ handles' = handles + 1
    /\ UNCHANGED <<served, dashVars>>
    /\ UNCHANGED <<pc, request, calls, mapping_response, search_response,
                   index_data, client, outcomes, invoked>>
    /\ UNCHANGED <<blockingVars, streamVars, promptVars>>

\* main.py lines 148-157 and 198-207: a request arrives and its handler
\* creates an OpenSearchClient and an LLMClient of its own
Arrive(r) ==
    /\ inflight[r].pc = "idle"
    /\ \E kind \in {"generate", "stream"}, name \in ServerIndexNames :
        inflight' = [inflight EXCEPT ![r] =
                        [pc |-> "fetch", kind |-> kind, index_name |-> name,
                         os_client |-> handles + 1, llm_client |-> handles + 2,
                         index_data |-> Null, result |-> Null]]
    /\ handles' = handles + 2
    /\ UNCHANGED <<served, dashVars>>
    /\ UNCHANGED <<pc, request, calls, mapping_response, search_response,
                   index_data, client, outcomes, invoked>>
    /\ UNCHANGED <<blockingVars, streamVars, promptVars>>

\* mutant: the fetch result of an earlier request for the same index is
\* reused instead of asking the search backend
ServerFetchCached(r) ==
    /\ inflight[r].pc = "fetch"
    /\ IF \E q \in RequestIds \ {r} :
            /\ inflight[q].pc \in {"invoke", "done"}
            /\ inflight[q].index_name = inflight[r].index_name
            /\ inflight[q].index_data.success
       THEN /\ \E q \in RequestIds \ {r} :
                /\ inflight[q].pc \in {"invoke", "done"}
                /\ inflight[q].index_name = inflight[r].index_name
                /\ inflight[q].index_data.success
                /\ inflight' = [inflight EXCEPT ![r].index_data = inflight[q].index_data,
                                                ![r].pc = "invoke"]
            /\ UNCHANGED served
       ELSE \E data \in ServerEnvelopes :
            /\ served' = Append(served, [op |-> "fetch", by |-> r,
                                         via |-> inflight[r].os_client,
                                         index |-> inflight[r].index_name,
                                         reply |-> data])
            /\ inflight' = [inflight EXCEPT
                              ![r].index_data = data,
                              ![r].result = IF data.success THEN Null
                                            ELSE FetchErrorResult(inflight[r].kind, data),
                              ![r].pc = IF data.success THEN "invoke" ELSE "done"]
    /\ UNCHANGED <<handles, dashVars>>
    /\ UNCHANGED <<pc, request, calls, mapping_response, search_response,
                   index_data, client, outcomes, invoked>>
    /\ UNCHANGED <<blockingVars, streamVars, promptVars>>

\* main.py lines 160-166 and 209-213: the request fetches through its own
\* OpenSearchClient and answers at once when the fetch failed
ServerFetch(r) ==
    /\ inflight[r].pc = "fetch"
    /\ \E data \in ServerEnvelopes :
        /\ served' = Append(served, [op |-> "fetch", by |-> r,
                                     via |-> inflight[r].os_client,
                                     index |-> inflight[r].index_name,
                                     reply |-> data])
        /\ inflight' = [inflight EXCEPT
                          ![r].index_data = data,
                          ![r].result = IF data.success THEN Null
                                        ELSE FetchErrorResult(inflight[r].kind, data),
                          ![r].pc = IF data.success THEN "invoke" ELSE "done"]
    /\ UNCHANGED <<handles, dashVars>>
    /\ UNCHANGED <<pc, request, calls, mapping_response, search_response,
                   index_data, client, outcomes, invoked>>
    /\ UNCHANGED <<blockingVars, streamVars, promptVars>>

\* main.py lines 168-186 and 216-228, chaos_code.py lines 279-280 and
\* 329-330: the request invokes the model through its own LLMClient and
\* answers with the plan, the stream of its fragments, or the error
ServerInvoke(r) ==
    /\ inflight[r].pc = "invoke"
    /\ \E outcome \in ModelOutcomes :
        /\ served' = Append(served, [op |-> "model", by |-> r,
                                     via |-> inflight[r].llm_client,
                                     index |-> inflight[r].index_name,
                                     reply |-> outcome])
        /\ inflight' = [inflight EXCEPT
                          ![r].result = ModelResult(inflight[r].kind, outcome),
                          ![r].pc = "done"]
    /\ UNCHANGED <<handles, dashVars>>
    /\ UNCHANGED <<pc, request, calls, mapping_response, search_response,
                   index_data, client, outcomes, invoked>>
    /\ UNCHANGED <<blockingVars, streamVars, promptVars>>

NextServer ==
    \E r \in RequestIds :
        \/ Arrive(r)
        \/ ServerFetch(r)
        \/ ServerInvoke(r)

SpecServer == Init /\ [][NextServer]_vars

-----------------------------------------------------------------------------
(* The connectivity probe: POST /api/bedrock/test-connection (main.py      *)
(* 128-140) and LLMClient.test_connection (chaos_code.py 241-275).  The    *)
(* marks that open the messages are written (ok) and (x).                  *)

\* config.py lines 23-24: the defaults of settings
DefaultRegion == "ap-south-1"
DefaultModel == "global.anthropic.claude-sonnet-4-5-20250929-v1:0"

\* the aws_config dicts the probe is called with: each key given or not
ProbeConfigs ==
    { [k \in keys |-> IF k = "model" THEN "model-x" ELSE region] :
        keys \in SUBSET {"model", "region"},
        region \in {"us-east-1", "eu-west-1", "no region"} }

\* region names boto3.client accepts
ValidRegions == {"us-east-1", "eu-west-1", "ap-south-1"}

\* line 250: max_tokens of the test payload
ProbeMaxTokens == 10

\* lines 248-258: test_payload
ProbePayload ==
    [anthropic_version |-> "bedrock-2023-05-31",
     max_tokens        |-> ProbeMaxTokens,
     messages          |-> <<[role |-> "user", content |-> "Hi"]>>]

\* what invoke_model does with the test payload: it answers, or raises a
\* ClientError with a code and a message, or another exception
ProbeOutcomes ==
    { [kind |-> "reply"] }
    \cup [kind : {"ClientError"},
          code : {"ResourceNotFoundException", "AccessDeniedException",
                  "ThrottlingException", "ValidationException"},
          message : {"denied", "slow down"}]
    \cup [kind : {"Exception"},
          text : {"EndpointConnectionError", "NoCredentialsError", "ReadTimeout"}]

\* mutant: every ClientError gets the message of the last branch
ProbeResultUnclassified(model, outcome) ==
    CASE outcome.kind = "reply" ->
            [ok |-> TRUE,
             message |-> "(ok) Connected to AWS Bedrock with model '" \o model \o "'"]
      [] outcome.kind = "ClientError" ->
            [ok |-> FALSE,
             message |-> "(x) AWS Error: " \o outcome.code \o " - " \o outcome.message]
      [] outcome.kind = "Exception" ->
            [ok |-> FALSE,
             message |-> "(x) Failed to connect to AWS Bedrock: " \o outcome.text]

\* lines 260-275: the pair test_connection returns
ProbeResult(model, outcome) ==
    CASE outcome.kind = "reply" ->
            [ok |-> TRUE,
             message |-> "(ok) Connected to AWS Bedrock with model '" \o model \o "'"]
      [] outcome.kind = "ClientError" /\ outcome.code = "ResourceNotFoundException" ->
            [ok |-> FALSE,
             message |-> "(x) Model '" \o model
                         \o "' not found. Check model ID and region."]
      [] outcome.kind = "ClientError" /\ outcome.code = "AccessDeniedException" ->
            [ok |-> FALSE,
             message |-> "(x) Access denied. Enable model access at "
                         \o "https://console.aws.amazon.com/bedrock/home?#/modelaccess"]
      [] outcome.kind = "ClientError"
           /\ outcome.code \notin {"ResourceNotFoundException", "AccessDeniedException"} ->
            [ok |-> FALSE,
             message |-> "(x) AWS Error: " \o outcome.code \o " - " \o outcome.message]
      [] outcome.kind = "Exception" ->
            [ok |-> FALSE,
             message |-> "(x) Failed to connect to AWS Bedrock: " \o outcome.text]

\* main.py lines 132-133: the model and the region the probe uses
ProbeModel == DictGet(request, "model", DefaultModel)
ProbeRegion == DictGet(request, "region", DefaultRegion)

\* main.py lines 132-135, chaos_code.py lines 243-245: the LLMClient is
\* built and test_connection creates the Bedrock client, inside its try;
\* boto3.client raises on a region name it does not accept
ProbeCreateClient ==
    /\ pc = "probe"
    /\ IF ProbeRegion \in ValidRegions
       THEN /\ client' = TRUE
            /\ pc' = "probe_invoke"
            /\ UNCHANGED <<invoked, outcomes>>
       ELSE /\ outcomes' = Append(outcomes, [kind |-> "Exception",
                                             text |-> "InvalidRegionError"])
            /\ invoked' = ProbeResult(ProbeModel, [kind |-> "Exception",
                                                   text |-> "InvalidRegionError"])
            /\ pc' = "probed"
            /\ UNCHANGED client
    /\ UNCHANGED <<request, calls, mapping_response, search_response,
                   index_data>>
    /\ UNCHANGED <<blockingVars, streamVars, promptVars>>
    /\ UNCHANGED <<serverVars, dashVars>>

\* chaos_code.py lines 248-275: the one invoke_model call with the test
\* payload, and the pair returned for what it did
ProbeInvoke ==
    /\ pc = "probe_invoke"
    /\ calls' = Append(calls, "probe")
    /\ \E outcome \in ProbeOutcomes :
        /\ outcomes' = Append(outcomes, [payload |-> ProbePayload] @@ outcome)
        /\ invoked' = ProbeResult(ProbeModel, outcome)
    /\ pc' = "probed"
    /\ UNCHANGED <<request, mapping_response, search_response, index_data,
                   client>>
    /\ UNCHANGED <<blockingVars, streamVars, promptVars>>
    /\ UNCHANGED <<serverVars, dashVars>>

\* main.py lines 136-137: TestConnectionResponse(success, message)
ProbeRespond ==
    /\ pc = "probed"
    /\ response' = [success |-> invoked.ok, message |-> invoked.message]
    /\ pc' = "done"
    /\ UNCHANGED <<now, attempt, sleeps, plan, metrics>>
    /\ UNCHANGED <<request, calls, mapping_response, search_response,
                   index_data, client, outcomes, invoked>>
    /\ UNCHANGED <<streamVars, promptVars>>
    /\ UNCHANGED <<serverVars, dashVars>>

\* the handler is entered with an aws_config
InitProbe ==
    /\ pc = "probe"
    /\ request \in ProbeConfigs
    /\ calls = <<>>
    /\ mapping_response = Unset
    /\ search_response = Unset
    /\ index_data = Unset
    /\ now = 0
    /\ client = FALSE
    /\ attempt = 0
    /\ sleeps = <<>>
    /\ outcomes = <<>>
    /\ invoked = Unset
    /\ plan = NoneValue
    /\ metrics = Unset
    /\ response = Unset
    /\ handle = "none"
    /\ consumed = <<>>
    /\ yielded = <<>>
    /\ sent = <<>>
    /\ consumer = "pulling"
    /\ sample_docs = <<>>
    /\ inflight = [r \in RequestIds |-> NotStarted]
    /\ handles = 0
    /\ served = <<>>
    /\ session = SessionStart
    /\ history = HistoryStart

NextProbe ==
    \/ ProbeCreateClient
    \/ ProbeInvoke
    \/ ProbeRespond

SpecProbe == InitProbe /\ [][NextProbe]_vars

-----------------------------------------------------------------------------
(* The dashboard (chaos_code.py 33-46, 873-930, 944-1144): one browser     *)
(* session whose st.session_state lives across the reruns of the script.   *)
(* A user action is one rerun: the widgets are read, the handler of the    *)
(* clicked button runs, the session state is written.  history records     *)
(* what happened, for the properties; the code does not read it.           *)

\* what GET _cat/indices may list: rows with an index name and a document
\* count (distinct counts, sort_values orders ties arbitrarily)
IndexListings ==
    { <<>>,
      <<[index |-> "logs-a", docs |-> 5]>>,
      <<[index |-> "logs-a", docs |-> 5], [index |-> "logs-b", docs |-> 9]>> }

\* the row with the largest document count
MaxRow(rows) ==
    CHOOSE i \in DOMAIN rows : \A j \in DOMAIN rows : rows[j].docs <= rows[i].docs

\* the sequence without its i-th element
Without(rows, i) ==
    [k \in 1..(Len(rows) - 1) |-> IF k < i THEN rows[k] ELSE rows[k + 1]]

\* lines 961 and 977: indices_df.sort_values('docs.count', ascending=False)
\* and indices_df['index'].tolist(), the options of the selectbox
RECURSIVE IndexNames(_)
IndexNames(rows) ==
    IF rows = <<>> THEN <<>>
    ELSE <<rows[MaxRow(rows)].index>> \o IndexNames(Without(rows, MaxRow(rows)))

\* the elements of a sequence
Range(q) == { q[i] : i \in DOMAIN q }

\* lines 983-988: the value of the selectbox index_selector on a rerun: the
\* value held before when it is still an option, the first option otherwise
SelectboxValue(held, options) ==
    IF held \in Range(options) THEN held ELSE options[1]

\* the OpenSearchClient and the LLMClient objects kept in the session
DashOsClient == [t |-> "OpenSearchClient"]
DashLlmClient == [t |-> "LLMClient"]

\* what get_index_data (lines 191-226) may return for an index: its
\* documents, an empty search result, or a failure
DashEnvelopes(name) ==
    { EnvelopeOf([status |-> 200, body |-> MappingDoc], r) :
        r \in { PromptReply(<<DocHit(Obj([message |-> Str("boom in " \o name)]))>>),
                PromptReply(<<>>) } }
    \cup { FetchFailure("Timeout") }

\* what iterating generate_plan_streaming may do: yield text fragments and
\* end, or raise after some of them
DashStreams ==
    { [deltas |-> <<>>, fails |-> FALSE],
      [deltas |-> <<"Root", " cause">>, fails |-> FALSE],
      [deltas |-> <<"Root">>, fails |-> TRUE],
      [deltas |-> <<>>, fails |-> TRUE] }

\* line 1093: st.write_stream returns the fragments joined into one str
RECURSIVE WriteStream(_)
WriteStream(deltas) ==
    IF deltas = <<>> THEN "" ELSE Head(deltas) \o WriteStream(Tail(deltas))

\* lines 1058-1062: the analysis options read from the sidebar widgets
DashOptions == "options"

\* lines 948 and 958: the index table and the selectbox are rendered
IndicesShown == session.connection_tested /\ session.indices # <<>>

\* what a dashboard action leaves alone
dashFrame ==
    <<pc, request, calls, mapping_response, search_response, index_data,
      client, outcomes, invoked, blockingVars, streamVars, promptVars,
      serverVars>>

\* lines 873-888: the button Test OpenSearch Connection; on success with a
\* non-empty index list the client, the list and the flag are stored, and
\* the rerun of line 887 renders the selectbox (lines 983-988)
TestOpenSearch ==
    /\ \E success \in BOOLEAN, listing \in IndexListings :
        IF success /\ listing # <<>>
        THEN session' = [session EXCEPT
                !.os_client = DashOsClient,
                !.indices = listing,
                !.connection_tested = TRUE,
                !.selected_index =
                    SelectboxValue(session.selected_index, IndexNames(listing))]
        ELSE UNCHANGED session
    /\ UNCHANGED history
    /\ UNCHANGED dashFrame

\* lines 921-930: the button Test Bedrock Connection; the client is kept
\* only when test_connection reported success
TestBedrock ==
    /\ \E success \in BOOLEAN :
        IF success
        THEN /\ session' = [session EXCEPT !.llm_client = DashLlmClient]
             /\ history' = [history EXCEPT !.llm_test_passed = TRUE]
        ELSE UNCHANGED <<session, history>>
    /\ UNCHANGED dashFrame

\* lines 983-988: the user picks an option of the selectbox; the rerun
\* stores it in the session and touches nothing else
SelectIndex ==
    /\ IndicesShown
    /\ \E name \in Range(IndexNames(session.indices)) :
        session' = [session EXCEPT !.selected_index = name]
    /\ UNCHANGED history
    /\ UNCHANGED dashFrame

\* mutant: the result of the fetch is stored whether it succeeded or not
FetchDataStoresFailure ==
    /\ IndicesShown
    /\ session.selected_index # NoneValue
    /\ session.os_client # Null
    /\ \E data \in DashEnvelopes(session.selected_index) :
        /\ session' = [session EXCEPT !.index_data = data]
        /\ history' = [history EXCEPT !.fetched_index = session.selected_index]
    /\ UNCHANGED dashFrame

\* lines 993-1004: the button Fetch Index Data; only a result with
\* success = true replaces the index_data of the session
FetchData ==
    /\ IndicesShown
    /\ session.selected_index # NoneValue
    /\ session.os_client # Null
    /\ \E data \in DashEnvelopes(session.selected_index) :
        IF data.success
        THEN /\ session' = [session EXCEPT !.index_data = data]
             /\ history' = [history EXCEPT !.fetched_index = session.selected_index]
        ELSE UNCHANGED <<session, history>>
    /\ UNCHANGED dashFrame

\* the arguments a generation is started with
GenerationArgs ==
    [index_name |-> session.selected_index,
     index_data |-> session.index_data,
     llm_client |-> session.llm_client]

\* lines 1026, 1056 and 1068-1108: the button Generate Chaos Plan, shown
\* when the session holds index_data and an llm_client; the prompt is built
\* from the selected index and the held index_data, the stream is written
\* out and its text becomes the plan; an exception leaves the plan alone
Generate ==
    /\ session.index_data # Null
    /\ session.llm_client # Null
    /\ LET prompt == CreatePrompt(session.selected_index, session.index_data,
                                  DashOptions)
       IN \E stream \in DashStreams :
            IF prompt.kind = "raise" \/ stream.fails
            THEN /\ history' = [history EXCEPT !.generation = GenerationArgs]
                 /\ UNCHANGED session
            ELSE /\ history' = [history EXCEPT
                                  !.generation = GenerationArgs,
                                  !.plan_source = GenerationArgs]
                 /\ session' = [session EXCEPT
                                  !.chaos_plan = WriteStream(stream.deltas)]
    /\ UNCHANGED dashFrame

NextDash ==
    \/ TestOpenSearch
    \/ TestBedrock
    \/ SelectIndex
    \/ FetchData
    \/ Generate

SpecDash == Init /\ [][NextDash]_vars

-----------------------------------------------------------------------------
(* Properties of the blocking invoke *)

\* number of outbound operations of one kind performed so far
Count(kind) == Cardinality({ i \in DOMAIN calls : calls[i] = kind })

\* an attempt failed: invoke_model raised, or its reply could not be decoded
IsFailure(o) == o.kind # "reply" \/ ResponseText(o.body) = RAISED

\* all attempts made so far failed
AllFailed == \A i \in DOMAIN outcomes : IsFailure(outcomes[i])

\* the last attempt made was answered with a text
LastSucceeded == outcomes # <<>> /\ ~IsFailure(outcomes[Len(outcomes)])

\* analyze_with_bedrock has returned or raised
InvokeOver == pc \in {"invoked", "returned", "done"}

RECURSIVE SeqSum(_)
SeqSum(q) == IF q = <<>> THEN 0 ELSE Head(q) + SeqSum(Tail(q))

\* C1: one call of the blocking invoke sends at most 3 requests, one per
\* attempt; when 3 attempts have failed the call is over, it has failed
\* with 'All 3 attempts failed', and no fourth request is ever sent.
C1_AtMostThreeAttempts ==
    /\ Count("model") <= 3
    /\ Count("model") = Len(outcomes)
    /\ (Len(outcomes) = 3 /\ AllFailed) =>
          /\ InvokeOver
          /\ invoked = Raise("All 3 attempts failed")

\* C1 witness: three attempts of three different failure kinds, the call over
C1_Witness ==
    /\ pc = "done"
    /\ Len(outcomes) = 3
    /\ outcomes[1].kind = "ClientError"
    /\ outcomes[2].kind = "Exception"
    /\ outcomes[3] = [kind |-> "reply", body |-> Garbage]
    /\ invoked = Raise("All 3 attempts failed")

\* C2: when attempts 1..k-1 fail and attempt k (k in 1..3) is answered with
\* a text, the invoke is over after exactly k requests and returns exactly
\* that text; for k = 3 the sleeps were 1s then 2s, 3s in total, and at
\* least 3s have passed since generate_plan started.
C2_ReturnsFirstSuccess ==
    LastSucceeded =>
        LET k == Len(outcomes) IN
        /\ k \in 1..3
        /\ \A i \in 1..(k - 1) : IsFailure(outcomes[i])
        /\ InvokeOver
        /\ Count("model") = k
        /\ invoked = Return(ResponseText(outcomes[k].body).s)
        /\ k = 3 => /\ sleeps = <<1, 2>>
                     /\ SeqSum(sleeps) = 3
                     /\ now - metrics.start_time >= 3

\* C2 witness: two failures, then the text "Plan" on the third attempt
C2_Witness ==
    /\ pc = "done"
    /\ Len(outcomes) = 3
    /\ IsFailure(outcomes[1])
    /\ IsFailure(outcomes[2])
    /\ LastSucceeded
    /\ invoked = Return("Plan")
    /\ response.success

\* failed attempts handled so far
NumFailures == Cardinality({ i \in DOMAIN outcomes : IsFailure(outcomes[i]) })

\* C3: the sleeps depend only on how many attempts have failed, never on
\* the kind of failure: 1s after the first, 2s after the second, none after
\* the third; and after f failures of any kind the loop is at attempt f
\* (f < 3) or has ended with the exhaustion error (f = 3).
C3_LinearBackoff ==
    LET f == NumFailures IN
    /\ sleeps = SubSeq(<<1, 2>>, 1, IF f < 2 THEN f ELSE 2)
    /\ (f > 0 /\ ~LastSucceeded) =>
          IF f < 3
          THEN pc = "attempt" /\ attempt = f
          ELSE InvokeOver /\ invoked = Raise("All 3 attempts failed")

\* C3 witness: a provider error, then a transport error, then a provider
\* error on the final attempt, which is not followed by a sleep
C3_Witness ==
    /\ Len(outcomes) = 3
    /\ outcomes[1].kind = "ClientError"
    /\ outcomes[2].kind = "Exception"
    /\ outcomes[3].kind = "ClientError"
    /\ sleeps = <<1, 2>>
    /\ pc = "invoked"

-----------------------------------------------------------------------------
(* Properties of the Index Reader *)

\* get_index_data has returned
FetchOver == index_data # Unset

\* the status class 2xx (Successful) of HTTP
Is2xx(status) == 200 <= status /\ status < 300

\* a request of the fetch was sent and ended in a transport exception
MappingTransportFailed == Count("mapping") > 0 /\ mapping_response = Unset
SearchTransportFailed == Count("search") > 0 /\ search_response = Unset

\* the search request was answered with a status outside 200..299
SearchNon2xx == search_response # Unset /\ ~Is2xx(search_response.status)

\* the search call succeeded: a 2xx reply carrying a well-formed body
SearchSucceeded ==
    /\ search_response # Unset
    /\ Is2xx(search_response.status)
    /\ search_response.body \in SearchBodies

\* the mapping call was answered, with a status outside 200..299
MappingNon2xx == mapping_response # Unset /\ ~Is2xx(mapping_response.status)

SuccessKeys ==
    {"mapping", "documents", "sample_size", "total_hits", "took_ms", "success"}
FailureKeys == {"success", "error"}

\* C4: the fetch always ends in an envelope, and after any transport
\* failure or any non-2xx search reply that envelope is
\* {success: false, error: <message>}.
C4_FailureEnvelopeOnNon2xx ==
    /\ pc \in {"fetched", "generate", "invoke", "attempt", "invoked",
                "returned", "done"} =>
          /\ FetchOver
          /\ "success" \in DOMAIN index_data
    /\ (FetchOver /\ (MappingTransportFailed \/ SearchTransportFailed
                         \/ SearchNon2xx)) =>
          /\ index_data.success = FALSE
          /\ DOMAIN index_data = FailureKeys

\* C5: an envelope has exactly the success-path keys when success is true
\* and exactly success and error when it is false.
C5_ExactlyOneFieldGroup ==
    FetchOver =>
        /\ index_data.success \in BOOLEAN
        /\ index_data.success => DOMAIN index_data = SuccessKeys
        /\ ~index_data.success => DOMAIN index_data = FailureKeys

\* C5 witness: a failure envelope produced after both replies had arrived,
\* the mapping reply usable and the search body not decodable
C5_Witness ==
    /\ pc = "fetched"
    /\ mapping_response = [status |-> 200, body |-> MappingDoc]
    /\ search_response = [status |-> 200, body |-> Garbage]
    /\ index_data = [success |-> FALSE, error |-> "JSONDecodeError"]

\* C6: when the mapping call was answered without success (a non-2xx reply)
\* and the search call succeeded, the envelope has success = true, the empty
\* mapping, and the documents, sample_size, total_hits and took_ms of the
\* search reply.
C6_PartialSuccess ==
    (FetchOver /\ MappingNon2xx /\ SearchSucceeded) =>
        LET data == search_response.body IN
        /\ index_data.success = TRUE
        /\ index_data.mapping = EmptyDict
        /\ index_data.documents = data
        /\ index_data.sample_size = Len(data.f.hits.f.hits.s)
        /\ index_data.total_hits = data.f.hits.f.total.f.value
        /\ index_data.took_ms = data.f.took

-----------------------------------------------------------------------------
(* Properties of the blocking generate path *)

\* position of an outbound operation in the pipeline
Stage(call) ==
    CASE call = "mapping" -> 1
      [] call = "search"  -> 1
      [] call = "prompt"  -> 2
      [] call = "model"   -> 3

FetchFailed == FetchOver /\ ~index_data.success

\* C7: fetch, prompt build and model invoke happen in this order; a prompt
\* is built and the model invoked only after a successful fetch, the model
\* only after the prompt; after a failed fetch no prompt is built, no model
\* request is sent, and the response is success = false with the fetch
\* error and no plan.
C7_StrictlyForward ==
    /\ \A i, j \in DOMAIN calls : i < j => Stage(calls[i]) <= Stage(calls[j])
    /\ Count("prompt") <= 1
    /\ Count("prompt") > 0 => FetchOver /\ index_data.success
    /\ Count("model") > 0 => Count("prompt") = 1
    /\ FetchFailed =>
          /\ Count("prompt") = 0
          /\ Count("model") = 0
          /\ pc \in {"fetched", "done"}
          /\ pc = "done" =>
                response = [success |-> FALSE,
                            error |-> "Failed to fetch index data: "
                                      \o index_data.error]

\* C7 witness: the search request failed and the handler has answered
C7_Witness ==
    /\ pc = "done"
    /\ calls = <<"mapping", "search">>
    /\ index_data = [success |-> FALSE, error |-> "HTTPError"]
    /\ response.success = FALSE

\* generate_plan has returned its pair (plan, metrics)
GenerateOver == pc \in {"returned", "done"}

\* C8: when analyze_with_bedrock has failed, here with every attempt used
\* up, generate_plan returns the empty plan and metrics with success false
\* and the message of that failure as error.
C8_InvokeFailureReported ==
    (GenerateOver /\ invoked # Unset /\ invoked.kind = "raise") =>
        /\ plan = ""
        /\ metrics.success = FALSE
        /\ metrics.error = invoked.msg
        /\ (Len(outcomes) = 3 /\ AllFailed) =>
              metrics.error = "All 3 attempts failed"

\* C8 witness: three failed attempts, generate_plan has returned
C8_Witness ==
    /\ pc = "returned"
    /\ Len(outcomes) = 3
    /\ AllFailed
    /\ invoked.kind = "raise"
    /\ metrics.error = "All 3 attempts failed"

\* C9: when generate_plan succeeds the plan is non-empty, plan_length is the
\* length of exactly that plan, duration_seconds >= 0 and
\* end_time >= start_time; the successful response carries that plan and
\* those metrics.
C9_SuccessMetrics ==
    /\ (GenerateOver /\ metrics # Unset /\ metrics.success) =>
          /\ plan # ""
          /\ plan # NoneValue
          /\ metrics.plan_length = Len(plan)
          /\ metrics.duration_seconds >= 0
          /\ metrics.end_time >= metrics.start_time
    /\ (pc = "done" /\ response.success) =>
          /\ metrics.success
          /\ response.plan = plan
          /\ response.plan # ""
          /\ response.metrics.success = TRUE
          /\ response.metrics.plan_length = Len(response.plan)

\* C9 witness: a successful response whose plan took time to generate
C9_Witness ==
    /\ pc = "done"
    /\ response.success
    /\ response.plan = "Plan"
    /\ response.metrics.plan_length = 4
    /\ response.metrics.duration_seconds > 0

\* the last attempt was answered with the empty text
LastWasEmptyText ==
    /\ LastSucceeded
    /\ ResponseText(outcomes[Len(outcomes)].body).s = ""

\* C10: an attempt answered with the empty text ends the invoke without a
\* further request; generate_plan then returns the empty plan and metrics
\* with success false and error 'Empty response from LLM', which is not the
\* exhaustion error, and the response reports that error.
C10_EmptyResponseNotRetried ==
    LastWasEmptyText =>
        /\ InvokeOver
        /\ Count("model") = Len(outcomes)
        /\ invoked = Return("")
        /\ GenerateOver =>
              /\ plan = ""
              /\ metrics.success = FALSE
              /\ metrics.error = "Empty response from LLM"
              /\ metrics.error # ExhaustedMessage
        /\ pc = "done" =>
              response = [success |-> FALSE, error |-> "Empty response from LLM"]

\* C10 witness: the first attempt was answered with the empty text and the
\* handler has answered
C10_Witness ==
    /\ pc = "done"
    /\ Len(outcomes) = 1
    /\ LastWasEmptyText
    /\ Count("model") = 1
    /\ response.error = "Empty response from LLM"

\* a step of the handler or of what it calls; the clock is not one
HandlerStep ==
    \/ GetMapping \/ PostSearch \/ CheckFetch \/ GeneratePlanBegin
    \/ EnsureClient \/ AttemptReturns \/ AttemptClientError
    \/ AttemptException \/ GeneratePlanFinish \/ Respond

\* nothing failed: the fetch succeeded, the request had its options, the
\* prompt was built and the invoke returned a non-empty text
NothingFailed ==
    /\ FetchOver /\ index_data.success
    /\ request.analysis_options # NoneValue
    /\ Count("prompt") = 1
    /\ invoked # Unset /\ invoked.kind = "return" /\ invoked.text # ""

\* C11: whatever the fetch, the prompt construction and the model attempts
\* do, generate_plan once called returns a pair (plan, metrics) with plan a
\* string and metrics carrying success and error, and the handler goes on
\* until it has answered with a GeneratePlanResponse, which after any
\* failure is success = false with a non-empty error; no step leaves the
\* handler without a continuation.
C11_NoUncaughtFault ==
    /\ pc \in {"fetch", "search", "fetched", "generate", "invoke", "attempt",
                "invoked", "returned", "done"}
    /\ pc # "done" => ENABLED HandlerStep
    /\ (pc = "done" /\ metrics # Unset) \/ pc = "returned" =>
          /\ plan # NoneValue
          /\ {"success", "error"} \subseteq DOMAIN metrics
          /\ metrics.success \in BOOLEAN
          /\ ~metrics.success =>
                plan = "" /\ metrics.error \notin {NoneValue, ""}
    /\ pc = "done" =>
          IF NothingFailed
          THEN response = [success |-> TRUE, plan |-> plan, metrics |-> metrics]
          ELSE /\ DOMAIN response = {"success", "error"}
               /\ response.success = FALSE
               /\ response.error \notin {NoneValue, ""}

\* C11 witness: the fetch succeeded on hits whose _source is not an object,
\* the prompt construction raised, generate_plan returned the empty plan
\* and the handler answered with the error
C11_Witness ==
    /\ pc = "done"
    /\ index_data.success
    /\ Count("prompt") = 0
    /\ plan = ""
    /\ metrics.error = "AttributeError"
    /\ response = [success |-> FALSE, error |-> "AttributeError"]

-----------------------------------------------------------------------------
(* Properties of the streaming path *)

\* the generator plan_generator_stream has returned
StreamClosed == pc = "closed"

\* C12: after a failed fetch the streaming generator yields exactly one
\* event, the error event naming the fetch failure, and returns; no
\* exception is raised, no fragment is yielded, no prompt is built and no
\* request goes to the model.
C12_FetchFailureOneErrorEvent ==
    FetchFailed =>
        /\ pc \in {"fetched", "yielded_error", "closed"}
        /\ invoked = Unset
        /\ yielded = <<>>
        /\ consumed = <<>>
        /\ handle = "none"
        /\ Count("prompt") = 0
        /\ Count("model_stream") = 0
        /\ Count("model") = 0
        /\ sent = IF pc = "fetched"
                  THEN <<>>
                  ELSE <<ErrorEvent("Failed to fetch index data: "
                                    \o index_data.error)>>

\* C12 witness: the search was refused, the error event was pulled and the
\* generator has returned
C12_Witness ==
    /\ StreamClosed
    /\ consumer = "pulling"
    /\ index_data = [success |-> FALSE, error |-> "HTTPError"]
    /\ sent = <<ErrorEvent("Failed to fetch index data: HTTPError")>>

\* the event is a decoded chunk of type content_block_delta
IsContentDelta(event) ==
    /\ event.kind = "chunk"
    /\ event.body.t = "obj"
    /\ "type" \in DOMAIN event.body.f
    /\ event.body.f.type.s = "content_block_delta"

\* the text the delta of a content_block_delta event carries, empty if none
TextOf(event) ==
    IF /\ "delta" \in DOMAIN event.body.f
       /\ "text" \in DOMAIN event.body.f.delta.f
    THEN event.body.f.delta.f.text.s
    ELSE <<>>

\* the non-empty texts of the content_block_delta events, in order
RECURSIVE TextDeltas(_)
TextDeltas(events) ==
    IF events = <<>> THEN <<>>
    ELSE LET rest == TextDeltas(Tail(events)) IN
         IF IsContentDelta(Head(events)) /\ TextOf(Head(events)) # <<>>
         THEN <<TextOf(Head(events))>> \o rest
         ELSE rest

ContentDelta(text) ==
    [kind |-> "chunk",
     body |-> Obj([type |-> Str("content_block_delta"),
                   delta |-> Obj([text |-> Str(text)])])]

\* C13: at every moment the fragments yielded by the streaming invoke are
\* exactly the non-empty texts of the content_block_delta events read so
\* far, in the order of the events; no fragment is empty; and when the
\* stream "Root", " cause", ": pod" has been read to its end exactly these
\* three fragments were yielded and the sequence has ended.
C13_YieldsTextDeltasInOrder ==
    /\ yielded = TextDeltas(consumed)
    /\ \A i \in DOMAIN yielded : yielded[i] # <<>>
    /\ invoked = Stop => pc = "closed"
    /\ (invoked = Stop /\ consumed = <<ContentDelta(<<"Root">>),
                                       ContentDelta(<<" cause">>),
                                       ContentDelta(<<": pod">>)>>) =>
          yielded = << <<"Root">>, <<" cause">>, <<": pod">> >>

\* C13 witness: an event of another type, a delta with the empty text and
\* a delta with a text were read, one fragment was yielded, the stream ended
C13_Witness ==
    /\ invoked = Stop
    /\ consumed = <<[kind |-> "chunk", body |-> Obj([type |-> Str("message_start")])],
                    ContentDelta(<<>>),
                    ContentDelta(<<"Root">>)>>
    /\ yielded = << <<"Root">> >>

\* reading the event ends in an exception: the event stream raised, or the
\* chunk is not JSON, has no type, or is a content delta without delta
EventFails(event) ==
    \/ event.kind # "chunk"
    \/ event.body.t # "obj"
    \/ "type" \notin DOMAIN event.body.f
    \/ IsContentDelta(event) /\ "delta" \notin DOMAIN event.body.f

\* the request of the streaming invoke was refused
StartFailed == outcomes # <<>> /\ outcomes[1].kind # "stream"

\* the last event read from the response stream failed
MidStreamFailed == consumed # <<>> /\ EventFails(consumed[Len(consumed)])

\* the exception has left the streaming invoke
Propagated ==
    /\ invoked # Unset
    /\ invoked.kind = "raise"
    /\ pc \in {"stream_raised", "yielded_error", "closed"}

Faulted == invoked # Unset /\ invoked.kind = "raise"

\* the events of the fragments yielded so far
FragmentEvents == [i \in DOMAIN yielded |-> Frame(yielded[i])]

IsErrorEvent(event) == Len(event) > 1 /\ event[2] = "{\"error\": \""

\* C15: an exception raised while the streaming generator works never
\* leaves it: the generator goes on to yield one error event carrying the
\* message, after the events of the fragments yielded before, and then
\* returns; no event follows the error event.
C15_FaultBecomesTerminalErrorEvent ==
    /\ pc \in {"fetch", "search", "fetched", "stream_prompt", "stream_invoke",
                "stream_read", "stream_raised", "yielded_chunk",
                "yielded_error", "closed"}
    /\ pc = "stream_raised" => ENABLED StreamCatch
    /\ \A i \in DOMAIN sent : IsErrorEvent(sent[i]) => i = Len(sent)
    /\ Faulted =>
          /\ pc \in {"stream_raised", "yielded_error", "closed"}
          /\ sent = IF pc = "stream_raised"
                    THEN FragmentEvents
                    ELSE FragmentEvents \o <<ErrorEvent(invoked.msg)>>

\* C15 witness: a chunk that is not JSON arrived after one fragment; the
\* receiver got the fragment's event, then the error event, and the
\* generator has returned
C15_Witness ==
    /\ StreamClosed
    /\ consumer = "pulling"
    /\ invoked = Raise("JSONDecodeError")
    /\ sent = <<Frame(<<"Root">>), ErrorEvent("JSONDecodeError")>>

-----------------------------------------------------------------------------
(* The receiver of the response of /api/chaos/generate/stream: the body is *)
(* declared as text/event-stream (main.py 236) and read as such.           *)

\* the body of the response: the events sent, one after the other
RECURSIVE Wire(_)
Wire(events) ==
    IF events = <<>> THEN <<>> ELSE Head(events) \o Wire(Tail(events))

\* the data lines of one event, joined by line breaks
RECURSIVE JoinLines(_)
JoinLines(lines) ==
    IF Len(lines) = 1 THEN lines[1]
    ELSE lines[1] \o <<LF>> \o JoinLines(Tail(lines))

\* text/event-stream: the body is cut into lines at every line break; a
\* line "data: <value>" adds <value> to the data of the event being read,
\* any other non-blank line is no data, a blank line ends the event, which
\* is dispatched if it has data; an event the body ends in is dropped
RECURSIVE ParseEventStream(_, _, _, _)
ParseEventStream(body, line, data, events) ==
    IF body = <<>> THEN events
    ELSE IF Head(body) # LF
    THEN ParseEventStream(Tail(body), Append(line, Head(body)), data, events)
    ELSE IF line = <<>>
    THEN ParseEventStream(Tail(body), <<>>, <<>>,
                          IF data = <<>> THEN events
                          ELSE Append(events, JoinLines(data)))
    ELSE IF Head(line) = "data: "
    THEN ParseEventStream(Tail(body), <<>>, Append(data, Tail(line)), events)
    ELSE ParseEventStream(Tail(body), <<>>, data, events)

\* the events the receiver has parsed out of what was sent so far
Received == ParseEventStream(Wire(sent), <<>>, <<>>, <<>>)

-----------------------------------------------------------------------------
(* Properties of the streaming delivery *)

\* C16: the receiver parses exactly one event per event sent, in order,
\* the i-th carrying exactly the i-th fragment yielded, whatever characters
\* the fragment contains; and when the fragment sequence ends without a
\* failure no event was sent beyond those of the fragments.
C16_OneEventPerFragment ==
    /\ Len(Received) = Len(sent)
    /\ \A i \in DOMAIN yielded : Received[i] = yielded[i]
    /\ (StreamClosed /\ invoked = Stop) => Len(sent) = Len(yielded)

\* C17: whenever the receiver has abandoned the event stream, the network
\* handle of the model's response stream is eventually not open any more.
C17_AbandonedHandleReleased ==
    (consumer = "abandoned") ~> (handle # "open")

-----------------------------------------------------------------------------
(* Properties of the normalized sample *)

\* the raw record of the i-th fetched document ({} when it has no _source)
RawOf(i) ==
    IF "_source" \in DOMAIN PromptHits[i].f
    THEN PromptHits[i].f["_source"]
    ELSE EmptyDict

HasText(source, key) ==
    /\ key \in DOMAIN source.f
    /\ source.f[key] # Null
    /\ source.f[key] # Str("")

FirstPresent(source, primary, secondary) ==
    IF primary \in DOMAIN source.f THEN source.f[primary]
    ELSE IF secondary \in DOMAIN source.f THEN source.f[secondary]
    ELSE Str("N/A")

C21_EveryFieldHasValue ==
    \A i \in DOMAIN sample_docs :
        /\ {"timestamp", "message", "level", "service"} \subseteq DOMAIN sample_docs[i]
        /\ sample_docs[i].timestamp # Null
        /\ sample_docs[i].message # Null
        /\ sample_docs[i].level # Null
        /\ sample_docs[i].service # Null

-----------------------------------------------------------------------------
(* Properties of the API server *)

\* the operations of one kind the backends were asked for by request r
OpsBy(r, op) == { i \in DOMAIN served : served[i].by = r /\ served[i].op = op }

Arrived(r) == inflight[r].pc # "idle"
Answered(r) == inflight[r].pc = "done"

\* the request has fetched, successfully
FetchedOk(r) ==
    /\ inflight[r].pc \in {"invoke", "done"}
    /\ inflight[r].index_data.success

HandlesOf(r) ==
    IF Arrived(r) THEN {inflight[r].os_client, inflight[r].llm_client} ELSE {}

\* the answer of a request run alone, from the replies it was given
ResultAlone(kind, fetch_reply, model_reply) ==
    IF ~fetch_reply.success
    THEN IF kind = "generate"
         THEN [success |-> FALSE,
               error |-> "Failed to fetch index data: " \o fetch_reply.error]
         ELSE << <<"data: ", "{\"error\": \"",
                   "Failed to fetch index data: " \o fetch_reply.error,
                   "\"}", LF, LF>> >>
    ELSE IF model_reply.kind = "raise"
    THEN IF kind = "generate"
         THEN [success |-> FALSE, error |-> model_reply.msg]
         ELSE << <<"data: ", "{\"error\": \"", model_reply.msg, "\"}", LF, LF>> >>
    ELSE IF kind = "generate"
         THEN [success |-> TRUE, plan |-> model_reply.text,
               metrics |-> [success |-> TRUE,
                            plan_length |-> Len(model_reply.text)]]
         ELSE << <<"data: ", model_reply.text, LF, LF>> >>

-----------------------------------------------------------------------------
(* Properties of the connectivity probe *)

\* test_connection has returned
ProbeOver == pc \in {"probed", "done"}

\* what the probe ran into: the last thing recorded for it
ProbeOutcome == outcomes[Len(outcomes)]

\* the class of a failure
ProbeClass(outcome) ==
    IF outcome.kind = "Exception" THEN "other-transport-error"
    ELSE IF outcome.code = "ResourceNotFoundException" THEN "model-not-found"
    ELSE IF outcome.code = "AccessDeniedException" THEN "access-denied"
    ELSE "other-provider-error"

ProbeClasses ==
    {"model-not-found", "access-denied", "other-provider-error",
     "other-transport-error"}

\* the messages of a class: its prefix, followed by a detail
ClassMessages(class) ==
    CASE class = "model-not-found" ->
            { "(x) Model '" \o m \o "' not found. Check model ID and region." :
                m \in {"model-x", DefaultModel} }
      [] class = "access-denied" ->
            { "(x) Access denied. " \o d :
                d \in {"Enable model access at https://console.aws.amazon.com/bedrock/home?#/modelaccess"} }
      [] class = "other-provider-error" ->
            { "(x) AWS Error: " \o code \o " - " \o text :
                code \in {"ThrottlingException", "ValidationException"},
                text \in {"denied", "slow down"} }
      [] class = "other-transport-error" ->
            { "(x) Failed to connect to AWS Bedrock: " \o text :
                text \in {"EndpointConnectionError", "NoCredentialsError",
                          "ReadTimeout", "InvalidRegionError"} }

\* the probe never raises and returns a pair (bool, message): true with the
\* connected message when invoke_model answered, false with a message of
\* exactly one failure class, the class of what happened, otherwise; the
\* request it sends asks for at most 10 output tokens
ProbeClassified ==
    /\ pc \in {"probe", "probe_invoke", "probed", "done"}
    /\ \A i \in DOMAIN outcomes :
          "payload" \in DOMAIN outcomes[i] => outcomes[i].payload.max_tokens <= 10
    /\ ProbeOver =>
          /\ DOMAIN invoked = {"ok", "message"}
          /\ invoked.ok \in BOOLEAN
          /\ invoked.ok <=> ProbeOutcome.kind = "reply"
          /\ invoked.ok =>
                invoked.message \in
                    { "(ok) Connected to AWS Bedrock with model '" \o m \o "'" :
                        m \in {"model-x", DefaultModel} }
          /\ ~invoked.ok =>
                /\ invoked.message \in ClassMessages(ProbeClass(ProbeOutcome))
                /\ \A c \in ProbeClasses \ {ProbeClass(ProbeOutcome)} :
                      invoked.message \notin ClassMessages(c)
    /\ pc = "done" =>
          response = [success |-> invoked.ok, message |-> invoked.message]

\* C24 as stated: a probe that has returned has sent exactly one request,
\* and it never raises and classifies as described.
C24_ProbeSendsExactlyOne ==
    /\ ProbeOver => Count("probe") = 1
    /\ ProbeClassified

\* C24 amended: the probe sends at most one request, exactly one once the
\* Bedrock client could be created and none when its creation failed (a
\* failure reported as other-transport-error); it never raises and
\* classifies as described.
C24_ProbeSendsAtMostOne ==
    /\ Count("probe") <= 1
    /\ ProbeOver => Count("probe") = (IF client THEN 1 ELSE 0)
    /\ (ProbeOver /\ ~client) =>
          /\ ~invoked.ok
          /\ ProbeClass(ProbeOutcome) = "other-transport-error"
    /\ ProbeClassified

\* C24 witness: the region name was not accepted; the handler has answered
\* with a message of the class other-transport-error and no request was sent
C24_Witness ==
    /\ pc = "done"
    /\ ~client
    /\ Count("probe") = 0
    /\ response = [success |-> FALSE,
                   message |-> "(x) Failed to connect to AWS Bedrock: InvalidRegionError"]

-----------------------------------------------------------------------------
(* Further properties of the fetch and of the blocking path *)

\* the search reply reports no matching document and carries no record
SearchFoundNothing ==
    /\ SearchSucceeded
    /\ search_response.body.f.hits.f.hits.s = <<>>
    /\ search_response.body.f.hits.f.total.f.value.n = 0

\* C25: when the search reply reports 0 matching documents and carries no
\* record, the fetch returns success = true with sample_size = 0 and
\* total_hits = 0, and the prompt built on that envelope has an empty
\* sample.
C25_EmptyIndexSucceeds ==
    (FetchOver /\ SearchFoundNothing) =>
        /\ index_data.success
        /\ index_data.sample_size = 0
        /\ index_data.total_hits = Num(0)
        /\ CreatePrompt("app-logs-2024", index_data, "options").kind = "prompt"
        /\ CreatePrompt("app-logs-2024", index_data, "options").sample = 0
        /\ CreatePrompt("app-logs-2024", index_data, "options").fetched = 0

\* the places of the requests of one kind in the order of the calls
Places(kind) == { i \in DOMAIN calls : calls[i] = kind }

\* C26: within one fetch the mapping request and the search request are
\* each sent at most once, the search only after the mapping; when the
\* mapping request ended in a transport exception no search request is
\* ever sent and the fetch has returned success = false with the message
\* of a transport exception.
C26_MappingThenSearch ==
    /\ Count("mapping") <= 1
    /\ Count("search") <= 1
    /\ Count("search") = 1 => Count("mapping") = 1
    /\ \A i \in Places("mapping"), j \in Places("search") : i < j
    /\ pc # "fetch" => Count("mapping") = 1
    /\ MappingTransportFailed =>
          /\ Count("search") = 0
          /\ search_response = Unset
          /\ FetchOver
          /\ DOMAIN index_data = FailureKeys
          /\ index_data.success = FALSE
          /\ index_data.error \in TransportErrors

\* C26 witness: the mapping request timed out, the handler has answered,
\* the mapping request is the only call that was made
C26_Witness ==
    /\ pc = "done"
    /\ calls = <<"mapping">>
    /\ mapping_response = Unset
    /\ index_data = [success |-> FALSE, error |-> "Timeout"]

\* the reply of attempt i arrived without error but cannot be decoded down
\* to a first text segment
Malformed(i) ==
    /\ outcomes[i].kind = "reply"
    /\ ResponseText(outcomes[i].body) = RAISED

\* the reply of attempt i is well formed and its first text segment is ""
EmptyText(i) ==
    /\ outcomes[i].kind = "reply"
    /\ ResponseText(outcomes[i].body) = Str("")

\* attempt i was handled as a failed attempt, with the backoff the generic
\* handler applies to a transport error: it did not end the invoke with a
\* result, the sleep after it is the one of ExceptionSleep, and the loop
\* went on to attempt i + 1 or ran out after the third
HandledAsFailure(i) ==
    /\ ~(InvokeOver /\ invoked.kind = "return" /\ Len(outcomes) = i)
    /\ IF i < MaxRetries
       THEN /\ Len(sleeps) >= i
            /\ sleeps[i] = ExceptionSleep(i - 1)
            /\ \/ Len(outcomes) > i
               \/ pc = "attempt" /\ attempt = i
       ELSE /\ Len(sleeps) = MaxRetries - 1
            /\ InvokeOver
            /\ invoked = Raise(ExhaustedMessage)

\* C27: in the blocking invoke a reply that arrives without error but is
\* malformed is a failed attempt, retried with the backoff of a transport
\* error; a well-formed reply whose first text segment is the empty string
\* ends the retry loop: it is the last attempt, no sleep follows it, and
\* the empty text is the result.
C27_MalformedRetriedEmptyReturned ==
    \A i \in DOMAIN outcomes :
        /\ Malformed(i) => HandledAsFailure(i)
        /\ outcomes[i].kind = "Exception" => HandledAsFailure(i)
        /\ EmptyText(i) =>
              /\ i = Len(outcomes)
              /\ Len(sleeps) = i - 1
              /\ InvokeOver
              /\ invoked = Return("")

\* C27 witness: an undecodable reply, one second of sleep, then a reply
\* without text segments, two seconds of sleep, then the empty text, which
\* is returned
C27_Witness ==
    /\ Len(outcomes) = 3
    /\ outcomes[1] = [kind |-> "reply", body |-> Garbage]
    /\ outcomes[2] = [kind |-> "reply", body |-> Obj([content |-> Arr(<<>>)])]
    /\ EmptyText(3)
    /\ sleeps = <<1, 2>>
    /\ invoked = Return("")
    /\ pc = "done"

\* generate_plan has returned its pair (plan, metrics)
GenerateReturned == GenerateOver /\ metrics # Unset /\ plan # NoneValue

\* the keys generate_plan adds to the metrics on success
SuccessMetricKeys == {"end_time", "duration_seconds", "plan_length"}

\* C28: for every pair (plan, metrics) generate_plan returns, 'success is
\* true', 'the plan is non-empty' and 'error is None' are equivalent, and
\* end_time, duration_seconds and plan_length are keys of the metrics
\* exactly when success is true.
C28_SuccessPlanErrorEquivalent ==
    GenerateReturned =>
        /\ metrics.success \in BOOLEAN
        /\ metrics.success <=> plan # ""
        /\ metrics.success <=> metrics.error = NoneValue
        /\ \A k \in SuccessMetricKeys : k \in DOMAIN metrics <=> metrics.success
        /\ DOMAIN metrics \subseteq {"start_time", "success", "error"} \cup SuccessMetricKeys

\* C28 witness: generate_plan has just returned the text of the second
\* attempt with success, no error and the three keys of a success
C28_Witness ==
    /\ pc = "returned"
    /\ Len(outcomes) = 2
    /\ plan = "P"
    /\ metrics.success
    /\ metrics.error = NoneValue
    /\ SuccessMetricKeys \subseteq DOMAIN metrics

-----------------------------------------------------------------------------
(* Properties of the dashboard session *)

\* C29: in the session state of the dashboard, after any sequence of user
\* actions, connection_tested is true only if os_client is set and the
\* index list is non-empty; llm_client is set only after a model connection
\* test succeeded; index_data is only ever a fetch result with
\* success = true; and every plan generation was started with both an
\* llm_client and index_data set.
C29_SessionStateGuards ==
    /\ session.connection_tested =>
          session.os_client # Null /\ session.indices # <<>>
    /\ session.llm_client # Null => history.llm_test_passed
    /\ session.index_data # Null =>
          /\ session.index_data.success = TRUE
          /\ DOMAIN session.index_data = SuccessKeys
    /\ history.generation # Null =>
          /\ history.generation.llm_client # Null
          /\ history.generation.index_data # Null
          /\ history.generation.index_data.success = TRUE

\* C29 witness: both connections were tested, data was fetched from logs-b
\* and a generation was started and stored its plan
C29_Witness ==
    /\ session.connection_tested
    /\ Len(session.indices) = 2
    /\ session.llm_client = DashLlmClient
    /\ session.index_data # Null
    /\ history.fetched_index = "logs-b"
    /\ history.generation # Null
    /\ session.chaos_plan = "Root cause"

\* the plan the dashboard shows (line 1112: if st.session_state.chaos_plan)
PlanShown ==
    session.chaos_plan # NoneValue /\ session.chaos_plan # ""

\* C30: after any sequence of index selections, fetches and generations,
\* the index name passed to a plan generation (and put into the prompt) is
\* the index the session's index_data was fetched from, and the plan shown
\* was generated from the index_data the session holds now.
C30_PlanMatchesHeldData ==
    /\ history.generation # Null =>
          /\ history.generation.index_name = history.fetched_index
          /\ CreatePrompt(history.generation.index_name,
                          history.generation.index_data,
                          DashOptions).index_name = history.fetched_index
    /\ PlanShown =>
          history.plan_source.index_data = session.index_data

====
